---- MODULE Spec2Model ----
(***************************************************************************)
(* Thread core, priority scheduler and synchronization primitives of the   *)
(* Nachos kernel of this repository.                                       *)
(*                                                                         *)
(* The kernel runs on one processor and switches threads only inside       *)
(* Thread::Yield and Thread::Sleep.  The state is the scheduler (ready     *)
(* queues and level bitmap, currentThread, threadToBeDestroyed), the       *)
(* thread control blocks (status, priority, join fields), the semaphores,  *)
(* locks and channels, and for every thread the list of kernel calls it    *)
(* still has to make (todo).  One action models one kernel call of the     *)
(* running thread, from its entry to its return or to the point where it   *)
(* gives up the processor.                                                 *)
(***************************************************************************)
EXTENDS Integers, Sequences, FiniteSets, TLC

VARIABLES
    currentThread,        \* system.hh: the thread holding the CPU
    status,               \* Thread::status
    priority,             \* Thread::priority
    started,              \* thread has been dispatched at least once
    deleted,              \* Thread objects already destroyed by Scheduler::Run
    queue,                \* PrioArray::queue / Scheduler::readyList, per level
    bitmap,               \* PrioArray::bitmap / Scheduler::bitmap, set of marked levels
    threadToBeDestroyed,  \* system.hh
    value,                \* Semaphore::value
    waiters,              \* Semaphore::queue
    holder,               \* Lock::holder
    savedPrio,            \* Lock::savedPrio
    prioInherit,          \* Lock::prioInherit
    buffer,               \* Channel::buffer
    condQueue,            \* Condition::queue, the levels: per-waiter semaphores, named by waiter
    condBitmap,           \* Condition::queue, the bitmap of its levels
    result,               \* per thread: the word its last Receive stored (*message)
    mustJoin,             \* Thread::mustJoin
    hasJoined,            \* Thread::hasJoined
    fatal,                \* an ASSERT failed: the kernel has aborted
    idle,                 \* Interrupt::Idle found nothing pending: the machine halted
    todo,                 \* per thread: kernel calls still to make (scripted threads)
    free,                 \* per thread: may make any call (unscripted threads)
    budget,               \* per thread: calls an unscripted thread may still make
    out,                  \* console output, in order
    hist,                 \* record of the last kernel call, and bookkeeping for the properties
    vm,                   \* virtual memory: page tables, TLB, core map, main memory, swap files
    fs                    \* file system: free map, file headers, directory

vars == <<currentThread, status, priority, started, deleted, queue, bitmap,
          threadToBeDestroyed, value, waiters, holder, savedPrio, prioInherit,
          buffer, condQueue, condBitmap, result, mustJoin, hasJoined, fatal, idle,
          todo, free, budget, out, hist, vm, fs>>

----------------------------------------------------------------------------
(* Program constants *)

MAX_PRIO == 140
DEFAULT_PRIORITY == 120
NICE_MIN == -20
NICE_LIMIT == 20
BITMAP_SIZE == 3
BITS_IN_BYTE == 8

(* Bounds of the model *)

MaxOps == 2          \* calls an unscripted thread makes

NULL == "nullptr"
NoNice == 99         \* a saved nice never written
NoCode == -1         \* a word never written

Threads == {"main", "T1", "T2", "T3", "T4"}
(* Objects are named by pairs of strings, semaphores by triples: the lock  *)
(* and the two semaphores of a channel carry the channel's name.           *)
UserLocks == {<<"lock", "L1">>, <<"lock", "L2">>}
Channels == {<<"channel", "ch">>} \cup {<<"joinChannel", t>> : t \in Threads}
NoLock == <<"lock", "nullptr">>

SendLock(c) == c
SendSem(c) == <<"sendSem", c[1], c[2]>>
ReceiveSem(c) == <<"receiveSem", c[1], c[2]>>
LockSem(l) == <<"semaphore", l[1], l[2]>>
(* The semaphore that Condition::Wait allocates for the waiting thread t. *)
WaitSem(t) == <<"waitSem", "condition", t>>

Locks == UserLocks \cup {SendLock(c) : c \in Channels}
Sems == {LockSem(l) : l \in Locks}
          \cup {SendSem(c) : c \in Channels} \cup {ReceiveSem(c) : c \in Channels}
          \cup {WaitSem(t) : t \in Threads}

Levels == 0 .. (MAX_PRIO - 1)

----------------------------------------------------------------------------
(* The machine state as one record, so that the kernel's routines compose. *)

M == [cur |-> currentThread, status |-> status, priority |-> priority,
      started |-> started, deleted |-> deleted, queue |-> queue,
      bitmap |-> bitmap, destroy |-> threadToBeDestroyed, value |-> value,
      waiters |-> waiters, holder |-> holder, savedPrio |-> savedPrio,
      buffer |-> buffer, hasJoined |-> hasJoined, fatal |-> fatal,
      idle |-> idle, condQueue |-> condQueue, condBitmap |-> condBitmap]

Commit(m) ==
    /\ currentThread' = m.cur
    /\ status' = m.status
    /\ priority' = m.priority
    /\ started' = m.started
    /\ deleted' = m.deleted
    /\ queue' = m.queue
    /\ bitmap' = m.bitmap
    /\ threadToBeDestroyed' = m.destroy
    /\ value' = m.value
    /\ waiters' = m.waiters
    /\ holder' = m.holder
    /\ savedPrio' = m.savedPrio
    /\ buffer' = m.buffer
    /\ hasJoined' = m.hasJoined
    /\ fatal' = m.fatal
    /\ idle' = m.idle
    /\ condQueue' = m.condQueue
    /\ condBitmap' = m.condBitmap

Abort(m) == [m EXCEPT !.fatal = TRUE]

----------------------------------------------------------------------------
(* List<Item> *)

RECURSIVE RemoveFirst(_, _)
RemoveFirst(s, x) ==
    IF s = <<>> THEN <<>>
    ELSE IF Head(s) = x THEN Tail(s)
    ELSE <<Head(s)>> \o RemoveFirst(Tail(s), x)

InSeq(s, x) == \E i \in 1 .. Len(s) : s[i] = x

(* Bitmap::FindFirstBit / Scheduler::FindFirstBit: one plus the index of   *)
(* the first set bit, zero when no bit is set.                             *)
FindFirstBit(bm) ==
    IF bm = {} THEN 0
    ELSE 1 + (CHOOSE p \in bm : \A q \in bm : p <= q)

(* PrioArray<Item>: Append, Pop, Remove, IsEmpty.  The names carry the   *)
(* class name because Append is an operator of Sequences.                *)

PrioAppend(m, item, prio) ==
    IF ~(prio < MAX_PRIO) THEN Abort(m)
    ELSE [m EXCEPT !.queue[prio] = @ \o <<item>>,
                   !.bitmap = @ \cup {prio}]

PrioPop(m) ==
    LET idx == FindFirstBit(m.bitmap) IN
    IF idx # 0 THEN
        LET p == idx - 1
            q == m.queue[p]
            rest == IF q = <<>> THEN <<>> ELSE Tail(q)
        IN [m |-> [m EXCEPT !.queue[p] = rest,
                            !.bitmap = IF rest = <<>> THEN @ \ {p} ELSE @],
            item |-> IF q = <<>> THEN NULL ELSE Head(q)]
    ELSE [m |-> m, item |-> NULL]

PrioRemove(m, item, prio) ==
    IF ~(prio < MAX_PRIO) THEN Abort(m)
    ELSE LET rest == RemoveFirst(m.queue[prio], item)
         IN [m EXCEPT !.queue[prio] = rest,
                      !.bitmap = IF rest = <<>> THEN @ \ {prio} ELSE @]

PrioIsEmpty(m) == FindFirstBit(m.bitmap) = 0

----------------------------------------------------------------------------
(* Thread attributes *)

SetStatus(m, t, st) == [m EXCEPT !.status[t] = st]

GetPriority(m, t) == m.priority[t]

GetNice(m, t) == m.priority[t] - DEFAULT_PRIORITY

Nice(m, t, niceValue) ==
    IF ~(niceValue >= NICE_MIN /\ niceValue < NICE_LIMIT) THEN Abort(m)
    ELSE [m EXCEPT !.priority[t] = DEFAULT_PRIORITY + niceValue]

----------------------------------------------------------------------------
(* Scheduler *)

ReadyToRun(m, t) ==
    IF t = NULL THEN Abort(m)
    ELSE PrioAppend(SetStatus(m, t, "READY"), t, GetPriority(m, t))

FindNextToRun(m) ==
    LET idx == FindFirstBit(m.bitmap) IN
    IF idx # 0 THEN
        IF m.queue[idx - 1] = <<>>
        THEN [m |-> Abort(m), item |-> NULL]
        ELSE PrioPop(m)
    ELSE [m |-> m, item |-> NULL]

(* Scheduler::Run.  The code after SWITCH runs in the thread that is       *)
(* switched to, and only when that thread is resuming from an earlier      *)
(* Run; a thread dispatched for the first time starts in ThreadRoot.       *)
(* Switching to a Thread object that has been deleted is a use of freed    *)
(* memory; the model stops there.  Thread::~Thread asserts that the thread  *)
(* deleted is not the current one.                                         *)
Run(m, nextThread) ==
    IF nextThread = NULL \/ nextThread \in m.deleted THEN Abort(m)
    ELSE
        LET m1 == SetStatus([m EXCEPT !.cur = nextThread], nextThread, "RUNNING")
        IN IF m.started[nextThread]
           THEN IF m.destroy = NULL THEN m1
                ELSE IF m.destroy = nextThread THEN Abort(m1)
                ELSE [m1 EXCEPT !.deleted = @ \cup {m.destroy},
                                !.destroy = NULL]
           ELSE [m1 EXCEPT !.started[nextThread] = TRUE]

Reschedule(m, t, oldPrio) ==
    PrioAppend(PrioRemove(m, t, oldPrio), t, GetPriority(m, t))

----------------------------------------------------------------------------
(* Thread::Yield and Thread::Sleep *)

Yield(m) ==
    LET r == FindNextToRun(m) IN
    IF r.m.fatal THEN r.m
    ELSE IF r.item # NULL
         THEN Run(ReadyToRun(r.m, m.cur), r.item)
         ELSE r.m

Sleep(m) ==
    LET m1 == [m EXCEPT !.status[m.cur] = "BLOCKED"]
        r == FindNextToRun(m1)
    IN IF r.m.fatal THEN r.m
       ELSE IF r.item = NULL
            THEN [r.m EXCEPT !.idle = TRUE]
            ELSE Run(r.m, r.item)

----------------------------------------------------------------------------
(* Semaphore.  P loops while the value is zero: a woken thread tests the   *)
(* value again.  PTry is one pass of that loop: it either takes the        *)
(* semaphore (done) or queues the caller and puts it to sleep.             *)

PTry(m, s) ==
    IF m.value[s] = 0
    THEN [m |-> Sleep([m EXCEPT !.waiters[s] = @ \o <<m.cur>>]), done |-> FALSE]
    ELSE [m |-> [m EXCEPT !.value[s] = @ - 1], done |-> TRUE]

V(m, s) ==
    LET m1 == IF m.waiters[s] # <<>>
              THEN ReadyToRun([m EXCEPT !.waiters[s] = Tail(@)], Head(m.waiters[s]))
              ELSE m
    IN [m1 EXCEPT !.value[s] = @ + 1]

----------------------------------------------------------------------------
(* Lock *)

IsHeldByCurrentThread(m, l) == m.holder[l] = m.cur

(* Lock::Acquire that changes the holder's nice and leaves it where it is  *)
(* in the ready set.                                                       *)
AcquireEntryNoReschedule(m, l) ==
    IF IsHeldByCurrentThread(m, l) THEN Abort(m)
    ELSE IF m.holder[l] # NULL /\ prioInherit[l]
            /\ GetPriority(m, m.holder[l]) > GetPriority(m, m.cur)
         THEN Nice(m, m.holder[l], GetNice(m, m.cur))
         ELSE m

(* Lock::Acquire without priority inheritance. *)
AcquireEntryNoInherit(m, l) ==
    IF IsHeldByCurrentThread(m, l) THEN Abort(m) ELSE m

(* Lock::Acquire from its entry to the call of semaphore->P(). *)
AcquireEntry(m, l) ==
    IF IsHeldByCurrentThread(m, l) THEN Abort(m)
    ELSE IF m.holder[l] # NULL /\ prioInherit[l]
            /\ GetPriority(m, m.holder[l]) > GetPriority(m, m.cur)
         THEN LET holderPrio == GetPriority(m, m.holder[l])
              IN Reschedule(Nice(m, m.holder[l], GetNice(m, m.cur)),
                            m.holder[l], holderPrio)
         ELSE m

(* Lock::Acquire that does not record the holder. *)
AcquirePNoHolder(m, l) ==
    LET r == PTry(m, LockSem(l)) IN
    IF r.done
    THEN [m |-> [r.m EXCEPT !.savedPrio[l] = GetNice(m, m.cur)], done |-> TRUE]
    ELSE r

(* Lock::Acquire from semaphore->P() to its return. *)
AcquireP(m, l) ==
    LET r == PTry(m, LockSem(l)) IN
    IF r.done
    THEN [m |-> [r.m EXCEPT !.holder[l] = m.cur,
                            !.savedPrio[l] = GetNice(m, m.cur)],
          done |-> TRUE]
    ELSE r

(* Lock::Release that leaves the inherited priority in place. *)
ReleaseNoRestore(m, l) ==
    IF ~IsHeldByCurrentThread(m, l) THEN Abort(m)
    ELSE V([m EXCEPT !.holder[l] = NULL], LockSem(l))

(* Lock::Release without its assertion. *)
ReleaseNoAssert(m, l) ==
    LET m1 == IF prioInherit[l] /\ m.holder[l] # NULL
              THEN Nice(m, m.holder[l], m.savedPrio[l])
              ELSE m
    IN V([m1 EXCEPT !.holder[l] = NULL], LockSem(l))

Release(m, l) ==
    IF ~IsHeldByCurrentThread(m, l) THEN Abort(m)
    ELSE LET m1 == IF prioInherit[l]
                   THEN Nice(m, m.holder[l], m.savedPrio[l])
                   ELSE m
         IN V([m1 EXCEPT !.holder[l] = NULL], LockSem(l))

(* Lock of Entrega2: the caller asks for inheritance per call, and Release *)
(* does not touch the priority.                                            *)

AcquireEntryE2(m, l, prioInheritance) ==
    IF IsHeldByCurrentThread(m, l) THEN Abort(m)
    ELSE IF prioInheritance /\ m.holder[l] # NULL
         THEN LET holderPrio == GetPriority(m, m.holder[l])
              IN IF holderPrio > GetPriority(m, m.cur)
                 THEN Reschedule(Nice(m, m.holder[l], GetNice(m, m.cur)),
                                 m.holder[l], holderPrio)
                 ELSE m
         ELSE m

AcquirePE2(m, l) ==
    LET r == PTry(m, LockSem(l)) IN
    IF r.done
    THEN [m |-> [r.m EXCEPT !.holder[l] = m.cur], done |-> TRUE]
    ELSE r

ReleaseE2(m, l) ==
    IF ~IsHeldByCurrentThread(m, l) THEN Abort(m)
    ELSE V([m EXCEPT !.holder[l] = NULL], LockSem(l))

----------------------------------------------------------------------------
(* Calls of a thread.  A call is <<name, argument, argument>>.  Channel    *)
(* operations are sequences of calls on the channel's lock, semaphores     *)
(* and buffer, in the order of the code.                                   *)

(* Channel::Send that does not take the send lock. *)
SendNoLock(c, message) ==
    << <<"Store", c, message>>,
       <<"V", SendSem(c), NULL>>,
       <<"P", ReceiveSem(c), NULL>> >>

Send(c, message) ==
    << <<"Acquire", SendLock(c), NULL>>,
       <<"Store", c, message>>,
       <<"V", SendSem(c), NULL>>,
       <<"P", ReceiveSem(c), NULL>>,
       <<"Release", SendLock(c), NULL>> >>

(* Channel::Receive that copies the buffer before it waits for a sender. *)
ReceiveLoadFirst(c) ==
    << <<"Load", c, NULL>>,
       <<"P", SendSem(c), NULL>>,
       <<"V", ReceiveSem(c), NULL>> >>

Receive(c) ==
    << <<"P", SendSem(c), NULL>>,
       <<"Load", c, NULL>>,
       <<"V", ReceiveSem(c), NULL>> >>

JoinChannel(t) == <<"joinChannel", t>>

TestChannel == <<"channel", "ch">>

Cur == currentThread

Live == ~fatal /\ ~idle

Scripted(name) == todo[Cur] # <<>> /\ Head(todo[Cur])[1] = name

Arg1 == Head(todo[Cur])[2]

Arg2 == Head(todo[Cur])[3]

(* An unscripted thread between two calls. *)
AtLarge == todo[Cur] = <<>> /\ free[Cur]

Calls(name, a, b) == Scripted(name) /\ Arg1 = a /\ Arg2 = b

FreeCall == AtLarge /\ budget[Cur] > 0

(* The call of thread t is over (or has reached the point where t gave up  *)
(* the processor); push is what t does first when it runs again.           *)
Then(t, push, cost) ==
    /\ todo' = [todo EXCEPT ![t] = push \o (IF @ = <<>> THEN <<>> ELSE Tail(@))]
    /\ budget' = [budget EXCEPT ![t] = IF todo[t] = <<>> THEN @ - cost ELSE @]

Static == UNCHANGED <<prioInherit, mustJoin, free, vm, fs>>

Step(op, t, l, ret) ==
    [hist EXCEPT !.op = op, !.thr = t, !.lock = l, !.ret = ret,
                 !.boost = NULL, !.prevPrio = 0, !.misuse = FALSE,
                 !.wasBoosted = FALSE]

NiceChoices == {-1, 0, 1}

Messages == {1, 2, 3}
ExitCodes == {0, 7}

HoldsNoLock(t) == \A l \in Locks : holder[l] # t

----------------------------------------------------------------------------
(* Actions: one kernel call of the running thread each. *)

(* Thread::Fork, called by the running thread on a thread just created. *)
Fork ==
    /\ Live
    /\ \E t \in Threads :
        /\ \/ Calls("Fork", t, NULL)
           \/ AtLarge /\ free[t] /\ status[t] = "JUST_CREATED"
        /\ Commit(ReadyToRun(M, t))
        /\ Then(Cur, <<>>, 0)
        /\ hist' = Step("Fork", Cur, NoLock, TRUE)
    /\ UNCHANGED <<out, result>>
    /\ Static

(* Thread::Yield, called by the running thread. *)
YieldCall ==
    /\ Live
    /\ Calls("Yield", NULL, NULL) \/ FreeCall
    /\ Commit(Yield(M))
    /\ Then(Cur, <<>>, 1)
    /\ hist' = Step("Yield", Cur, NoLock, TRUE)
    /\ UNCHANGED <<out, result>>
    /\ Static

(* Thread::Nice, called on thread t. *)
NiceCall ==
    /\ Live
    /\ \E t \in Threads, v \in NICE_MIN .. (NICE_LIMIT - 1) :
        /\ \/ Calls("Nice", t, v)
           \/ FreeCall /\ t = Cur /\ v \in NiceChoices
        /\ Commit(Nice(M, t, v))
        /\ Then(Cur, <<>>, 1)
        /\ hist' = Step("Nice", Cur, NoLock, TRUE)
    /\ UNCHANGED <<out, result>>
    /\ Static

Boosts(t, l) ==
    /\ holder[l] # NULL
    /\ holder[l] # t
    /\ prioInherit[l]
    /\ priority[holder[l]] > priority[t]

(* Lock::Acquire.  The first disjunct is the call; the second is the call  *)
(* going on in semaphore->P() after the thread was woken.                  *)
Acquire ==
    /\ Live
    /\ \E l \in Locks :
        LET t == Cur IN
        \/ /\ \/ Calls("Acquire", l, NULL)
              \/ FreeCall /\ l \in UserLocks
           /\ LET m1 == AcquireEntry(M, l)
                  r == IF m1.fatal THEN [m |-> m1, done |-> TRUE]
                       ELSE AcquireP(m1, l)
                  got == r.done /\ ~r.m.fatal
              IN /\ Commit(r.m)
                 /\ Then(t, IF r.done THEN <<>>
                            ELSE << <<"Acquire.P", l, NULL>> >>, 1)
                 /\ hist' = [Step("Acquire", t, l, r.done) EXCEPT
                        !.misuse = (holder[l] = t),
                        !.arrived = IF l = TestChannel
                                    THEN @ \o <<hist.sending[t]>> ELSE @,
                        !.boost = IF Boosts(t, l) THEN holder[l] ELSE NULL,
                        !.prevPrio = IF Boosts(t, l) THEN priority[holder[l]] ELSE 0,
                        !.boosted[l] = IF got THEN FALSE ELSE @ \/ Boosts(t, l),
                        !.inCS[l] = IF got THEN @ \cup {t} ELSE @,
                        !.acqNice[l] = IF got THEN priority[t] - DEFAULT_PRIORITY ELSE @]
        \/ /\ Calls("Acquire.P", l, NULL)
           /\ LET r == AcquireP(M, l)
                  got == r.done /\ ~r.m.fatal
              IN /\ Commit(r.m)
                 /\ Then(t, IF r.done THEN <<>>
                            ELSE << <<"Acquire.P", l, NULL>> >>, 0)
                 /\ hist' = [Step("Acquire.P", t, l, r.done) EXCEPT
                        !.boosted[l] = IF got THEN FALSE ELSE @,
                        !.inCS[l] = IF got THEN @ \cup {t} ELSE @,
                        !.acqNice[l] = IF got THEN priority[t] - DEFAULT_PRIORITY ELSE @]
    /\ UNCHANGED <<out, result>>
    /\ Static

(* Lock::Release. *)
ReleaseCall ==
    /\ Live
    /\ \E l \in Locks :
        /\ \/ Calls("Release", l, NULL)
           \/ AtLarge /\ l \in UserLocks
        /\ Commit(Release(M, l))
        /\ Then(Cur, <<>>, 0)
        /\ hist' = [Step("Release", Cur, l, TRUE) EXCEPT
                        !.misuse = (holder[l] # Cur),
                        !.prevPrio = priority[Cur],
                        !.wasBoosted = (holder[l] = Cur /\ hist.boosted[l]),
                        !.completed = IF l = TestChannel /\ holder[l] = Cur
                                      THEN @ \o <<hist.sending[Cur]>> ELSE @,
                        !.inCS[l] = IF holder[l] = Cur THEN @ \ {Cur} ELSE @]
    /\ UNCHANGED <<out, result>>
    /\ Static

(* Thread::Finish from interrupt->SetLevel(INT_OFF) on. *)
FinishTail(m) == Sleep([m EXCEPT !.destroy = m.cur])

(* Thread::Finish and Thread::Exit.  A joinable thread first sends its     *)
(* exit code (0 from Finish) on its join channel and goes on in            *)
(* FinishRest; any other thread gives up the processor for good here.      *)
(* An unscripted thread releases its locks before it finishes.             *)
Finish ==
    /\ Live
    /\ \E code \in ExitCodes :
        /\ \/ Calls("Finish", NULL, NULL) /\ code = 0
           \/ AtLarge /\ HoldsNoLock(Cur) /\ code = 0
           \/ Calls("Exit", code, NULL)
        /\ IF mustJoin[Cur]
           THEN /\ Commit(M)
                /\ todo' = [todo EXCEPT ![Cur] =
                              Send(JoinChannel(Cur), code)
                                  \o << <<"Finish.rest", NULL, NULL>> >>]
                /\ UNCHANGED <<budget, free>>
                /\ hist' = [Step("Finish", Cur, NoLock, FALSE) EXCEPT
                                !.exitCode[Cur] = code]
           ELSE /\ Commit(FinishTail(M))
                /\ todo' = [todo EXCEPT ![Cur] = <<>>]
                /\ budget' = [budget EXCEPT ![Cur] = 0]
                /\ free' = [free EXCEPT ![Cur] = FALSE]
                /\ hist' = [Step("Finish", Cur, NoLock, TRUE) EXCEPT
                                !.exitCode[Cur] = code]
    /\ UNCHANGED <<out, result, prioInherit, mustJoin, vm, fs>>

(* Thread::Finish and Thread::Exit of a joinable thread after the Send. *)
FinishRest ==
    /\ Live
    /\ Calls("Finish.rest", NULL, NULL)
    /\ Commit(FinishTail(M))
    /\ todo' = [todo EXCEPT ![Cur] = <<>>]
    /\ hist' = Step("Finish.rest", Cur, NoLock, TRUE)
    /\ UNCHANGED <<out, result, prioInherit, mustJoin, budget, free, vm, fs>>

(* Thread::Join on thread t: the assertions, then the Receive on t's join  *)
(* channel.  The caller holds a Thread object that still exists.           *)
Join ==
    /\ Live
    /\ \E t \in Threads \ deleted :
        /\ Calls("Join", t, NULL)
        /\ IF ~mustJoin[t] \/ hasJoined[t]
           THEN /\ Commit(Abort(M))
                /\ UNCHANGED todo
           ELSE /\ Commit([M EXCEPT !.hasJoined[t] = TRUE])
                /\ todo' = [todo EXCEPT ![Cur] =
                              Receive(JoinChannel(t))
                                  \o << <<"Join.return", t, NULL>> >> \o Tail(@)]
        /\ hist' = [Step("Join", Cur, NoLock, FALSE) EXCEPT
                        !.misuse = hasJoined[t], !.joined = t]
    /\ UNCHANGED <<out, result, budget>>
    /\ Static

(* Thread::Join: return result. *)
JoinReturn ==
    /\ Live
    /\ \E t \in Threads :
        /\ Calls("Join.return", t, NULL)
        /\ Commit(M)
        /\ Then(Cur, <<>>, 0)
        /\ hist' = [Step("Join.return", Cur, NoLock, TRUE) EXCEPT !.joined = t]
    /\ UNCHANGED <<out, result>>
    /\ Static

(* Channel::Send, entry: the calls it makes are queued for the thread. *)
SendCall ==
    /\ Live
    /\ \E c \in Channels, message \in Messages :
        /\ Calls("Send", c, message)
        /\ Commit(M)
        /\ Then(Cur, Send(c, message), 0)
        /\ hist' = [Step("Send", Cur, NoLock, FALSE) EXCEPT
                        !.sending[Cur] = message]
    /\ UNCHANGED <<out, result>>
    /\ Static

(* Channel::Send: buffer = message. *)
Store ==
    /\ Live
    /\ \E c \in Channels, message \in Messages \cup ExitCodes :
        /\ Calls("Store", c, message)
        /\ Commit([M EXCEPT !.buffer[c] = message])
        /\ Then(Cur, <<>>, 0)
        /\ hist' = [Step("Store", Cur, NoLock, TRUE) EXCEPT
                        !.stored = IF c = TestChannel THEN @ \o <<message>> ELSE @]
    /\ UNCHANGED <<out, result>>
    /\ Static

(* Channel::Receive, entry. *)
ReceiveCall ==
    /\ Live
    /\ \E c \in Channels :
        /\ Calls("Receive", c, NULL)
        /\ Commit(M)
        /\ Then(Cur, Receive(c), 0)
        /\ hist' = Step("Receive", Cur, NoLock, FALSE)
    /\ UNCHANGED <<out, result>>
    /\ Static

(* Channel::Receive: *message = buffer. *)
Load ==
    /\ Live
    /\ \E c \in Channels :
        /\ Calls("Load", c, NULL)
        /\ result' = [result EXCEPT ![Cur] = buffer[c]]
        /\ Commit(M)
        /\ Then(Cur, <<>>, 0)
        /\ hist' = [Step("Load", Cur, NoLock, TRUE) EXCEPT
                        !.received = IF c = TestChannel THEN @ \o <<buffer[c]>> ELSE @]
    /\ UNCHANGED out
    /\ Static

(* Semaphore::P.  A thread woken in P runs the loop again, which is the    *)
(* same call.                                                              *)
P ==
    /\ Live
    /\ \E s \in Sems :
        /\ Calls("P", s, NULL)
        /\ LET t == Cur
               r == PTry(M, s)
           IN /\ Commit(r.m)
              /\ Then(t, IF r.done THEN <<>> ELSE << <<"P", s, NULL>> >>, 0)
              /\ hist' = Step("P", t, NoLock, r.done)
    /\ UNCHANGED <<out, result>>
    /\ Static

(* Semaphore::V. *)
VCall ==
    /\ Live
    /\ \E s \in Sems :
        /\ Calls("V", s, NULL)
        /\ Commit(V(M, s))
        /\ Then(Cur, <<>>, 0)
        /\ hist' = Step("V", Cur, NoLock, TRUE)
    /\ UNCHANGED <<out, result>>
    /\ Static

(* The timer interrupt between two calls of the running thread: the        *)
(* handler makes the thread yield.                                         *)
TimerYield ==
    /\ Live
    /\ Commit(Yield(M))
    /\ hist' = Step("TimerYield", Cur, NoLock, TRUE)
    /\ UNCHANGED <<out, result, todo, budget>>
    /\ Static

(* Lock::Acquire of Entrega2; calls and continuation as for Acquire. *)
AcquireE2 ==
    /\ Live
    /\ \E l \in Locks :
        LET t == Cur IN
        \/ /\ \E inh \in BOOLEAN :
                /\ Calls("AcquireE2", l, inh)
                /\ LET m1 == AcquireEntryE2(M, l, inh)
                       r == IF m1.fatal THEN [m |-> m1, done |-> TRUE]
                            ELSE AcquirePE2(m1, l)
                       got == r.done /\ ~r.m.fatal
                       boosts == /\ inh
                                 /\ holder[l] # NULL
                                 /\ holder[l] # t
                                 /\ priority[holder[l]] > priority[t]
                   IN /\ Commit(r.m)
                      /\ Then(t, IF r.done THEN <<>>
                                 ELSE << <<"AcquireE2.P", l, NULL>> >>, 1)
                      /\ hist' = [Step("AcquireE2", t, l, r.done) EXCEPT
                            !.misuse = (holder[l] = t),
                            !.boost = IF boosts THEN holder[l] ELSE NULL,
                            !.prevPrio = IF boosts THEN priority[holder[l]] ELSE 0,
                            !.boosted[l] = IF got THEN FALSE ELSE @ \/ boosts,
                            !.inCS[l] = IF got THEN @ \cup {t} ELSE @,
                            !.acqNice[l] = IF got THEN priority[t] - DEFAULT_PRIORITY ELSE @]
        \/ /\ Calls("AcquireE2.P", l, NULL)
           /\ LET r == AcquirePE2(M, l)
                  got == r.done /\ ~r.m.fatal
              IN /\ Commit(r.m)
                 /\ Then(t, IF r.done THEN <<>>
                            ELSE << <<"AcquireE2.P", l, NULL>> >>, 0)
                 /\ hist' = [Step("AcquireE2.P", t, l, r.done) EXCEPT
                        !.boosted[l] = IF got THEN FALSE ELSE @,
                        !.inCS[l] = IF got THEN @ \cup {t} ELSE @,
                        !.acqNice[l] = IF got THEN priority[t] - DEFAULT_PRIORITY ELSE @]
    /\ UNCHANGED <<out, result>>
    /\ Static

(* Lock::Release of Entrega2. *)
ReleaseE2Call ==
    /\ Live
    /\ \E l \in Locks :
        /\ Calls("ReleaseE2", l, NULL)
        /\ Commit(ReleaseE2(M, l))
        /\ Then(Cur, <<>>, 0)
        /\ hist' = [Step("ReleaseE2", Cur, l, TRUE) EXCEPT
                        !.misuse = (holder[l] # Cur),
                        !.prevPrio = priority[Cur],
                        !.wasBoosted = (holder[l] = Cur /\ hist.boosted[l]),
                        !.inCS[l] = IF holder[l] = Cur THEN @ \ {Cur} ELSE @]
    /\ UNCHANGED <<out, result>>
    /\ Static

(* printf of the test programs. *)
Printf ==
    /\ Live
    /\ Scripted("printf")
    /\ out' = out \o <<Arg1>>
    /\ Then(Cur, <<>>, 0)
    /\ hist' = Step("printf", Cur, NoLock, TRUE)
    /\ UNCHANGED <<currentThread, status, priority, started, deleted, queue,
                   bitmap, threadToBeDestroyed, value, waiters, holder,
                   savedPrio, buffer, condQueue, condBitmap, result, hasJoined,
                   fatal, idle>>
    /\ Static

----------------------------------------------------------------------------
(* Initial states *)

NoHist ==
    [op |-> "none", thr |-> NULL, lock |-> NoLock, ret |-> TRUE,
     boost |-> NULL, prevPrio |-> 0, misuse |-> FALSE, wasBoosted |-> FALSE,
     boosted |-> [l \in Locks |-> FALSE],
     inCS |-> [l \in Locks |-> {}],
     acqNice |-> [l \in Locks |-> NoNice],
     sending |-> [t \in Threads |-> NoCode],
     arrived |-> <<>>, stored |-> <<>>, received |-> <<>>, completed |-> <<>>,
     exitCode |-> [t \in Threads |-> NoCode],
     joined |-> NULL,
     waiting |-> <<>>,
     waitPrio |-> [t \in Threads |-> 0],
     signalled |-> [t \in Threads |-> FALSE],
     woken |-> {}, longest |-> NULL, best |-> NULL, held |-> NULL]

(* The kernel after Initialize(): the main thread runs, nothing is ready,  *)
(* every lock is free, every channel empty.                                *)
Boot ==
    /\ currentThread = "main"
    /\ status = [t \in Threads |-> IF t = "main" THEN "RUNNING" ELSE "JUST_CREATED"]
    /\ started = [t \in Threads |-> t = "main"]
    /\ deleted = {}
    /\ queue = [p \in Levels |-> <<>>]
    /\ threadToBeDestroyed = NULL
    /\ value = [s \in Sems |-> IF \E l \in Locks : s = LockSem(l) THEN 1 ELSE 0]
    /\ waiters = [s \in Sems |-> <<>>]
    /\ holder = [l \in Locks |-> NULL]
    /\ savedPrio = [l \in Locks |-> NoNice]
    /\ buffer = [c \in Channels |-> 0]
    /\ condQueue = [p \in Levels |-> <<>>]
    /\ condBitmap = {}
    /\ result = [t \in Threads |-> NoCode]
    /\ hasJoined = [t \in Threads |-> FALSE]
    /\ fatal = FALSE
    /\ idle = FALSE
    /\ out = <<>>
    /\ hist = NoHist

(* The thread tests run without user programs and without a disk. *)
KernelOnly == vm = NULL /\ fs = NULL

LockThreads == {"main", "T1", "T2"}

InitialNice == [t \in Threads |-> IF t = "T1" THEN 1 ELSE IF t = "T2" THEN -1 ELSE 0]

(* Unscripted threads using two locks; the threads were given their nice   *)
(* values and the locks their inheritance flag before the run.             *)
InitLock ==
    /\ Boot
    /\ KernelOnly
    /\ bitmap = {}
    /\ priority = [t \in Threads |-> DEFAULT_PRIORITY + InitialNice[t]]
    /\ prioInherit \in [Locks -> BOOLEAN]
    /\ prioInherit[<<"lock", "L1">>]
    /\ \A l \in Locks \ UserLocks : ~prioInherit[l]
    /\ mustJoin = [t \in Threads |-> FALSE]
    /\ free = [t \in Threads |-> t \in LockThreads]
    /\ budget = [t \in Threads |-> IF t \in LockThreads THEN MaxOps ELSE 0]
    /\ todo = [t \in Threads |-> <<>>]

NextLock == Fork \/ YieldCall \/ NiceCall \/ Acquire \/ ReleaseCall \/ Finish

SpecLock == InitLock /\ [][NextLock]_vars

----------------------------------------------------------------------------
(* Properties *)

NiceOf(t) == priority[t] - DEFAULT_PRIORITY

C10_SchedulerInvariant ==
    /\ Cardinality({t \in Threads : status[t] = "RUNNING"}) <= 1
    /\ currentThread \in Threads \ deleted
    /\ \A p \in Levels : \A i \in 1 .. Len(queue[p]) : status[queue[p][i]] = "READY"

(* The places of thread t in the ready array: level and position.          *)
ReadyPlaces(t) ==
    {<<p, i>> \in Levels \X (1 .. Cardinality(Threads)) :
        i <= Len(queue[p]) /\ queue[p][i] = t}

(* C39: when Lock::Acquire reschedules the holder it has boosted, the      *)
(* holder is READY and in the ready array at its old level; after the      *)
(* call every thread is in the ready array at most once, at the level of   *)
(* its priority, and no BLOCKED or RUNNING thread is in it.                *)
C39_RescheduleKeepsArray ==
    [][hist'.op = "Acquire" /\ hist'.boost # NULL /\ ~fatal'
           => /\ status[hist'.boost] = "READY"
              /\ InSeq(queue[hist'.prevPrio], hist'.boost)
              /\ \A t \in Threads :
                    /\ Cardinality(ReadyPlaces(t))' <= 1
                    /\ \A pl \in ReadyPlaces(t)' :
                          pl[1] = priority'[t] /\ status'[t] = "READY"]_vars

----------------------------------------------------------------------------
(* ThreadTestInversion: the Mars Pathfinder scenario.  The three nice      *)
(* values are drawn from the negative range with Weather lowest in         *)
(* priority and Data Bus highest (the test uses -1, -5, -10), and the      *)
(* lock is either the one of Entrega2, with the flag passed to Acquire,    *)
(* or the later one, with the flag set on the lock.                        *)

Weather == "T1"
Communication == "T2"
DataBus == "T3"
dataBusLock == <<"lock", "L1">>

InversionNice == -10 .. -1

MainInversion(w, c, d) ==
    << <<"Nice", Weather, w>>, <<"Nice", Communication, c>>,
       <<"Nice", DataBus, d>>,
       <<"Fork", Weather, NULL>>, <<"Yield", NULL, NULL>>,
       <<"Fork", Communication, NULL>>, <<"Fork", DataBus, NULL>>,
       <<"Yield", NULL, NULL>> >>

WeatherE2 ==
    << <<"AcquireE2", dataBusLock, FALSE>>, <<"Yield", NULL, NULL>>,
       <<"printf", "Weather analyzed", NULL>>,
       <<"ReleaseE2", dataBusLock, NULL>>, <<"Finish", NULL, NULL>> >>

WeatherLater ==
    << <<"Acquire", dataBusLock, NULL>>, <<"Yield", NULL, NULL>>,
       <<"printf", "Weather analyzed", NULL>>,
       <<"Release", dataBusLock, NULL>>, <<"Finish", NULL, NULL>> >>

CommunicationProgram ==
    << <<"printf", "Communications", NULL>>, <<"Finish", NULL, NULL>> >>

DataBusE2 ==
    << <<"AcquireE2", dataBusLock, TRUE>>,
       <<"printf", "Data bus liberated", NULL>>,
       <<"ReleaseE2", dataBusLock, NULL>>, <<"Finish", NULL, NULL>> >>

DataBusLater ==
    << <<"Acquire", dataBusLock, NULL>>,
       <<"printf", "Data bus liberated", NULL>>,
       <<"Release", dataBusLock, NULL>>, <<"Finish", NULL, NULL>> >>

InitInversion ==
    /\ Boot
    /\ KernelOnly
    /\ bitmap = {}
    /\ priority = [t \in Threads |-> DEFAULT_PRIORITY]
    /\ prioInherit = [l \in Locks |-> l = dataBusLock]
    /\ mustJoin = [t \in Threads |-> FALSE]
    /\ free = [t \in Threads |-> FALSE]
    /\ budget = [t \in Threads |-> 0]
    /\ \E w, c, d \in InversionNice, e2 \in BOOLEAN :
        /\ d < c
        /\ c < w
        /\ todo = [t \in Threads |->
                    IF t = "main" THEN MainInversion(w, c, d)
                    ELSE IF t = Weather THEN (IF e2 THEN WeatherE2 ELSE WeatherLater)
                    ELSE IF t = Communication THEN CommunicationProgram
                    ELSE IF t = DataBus THEN (IF e2 THEN DataBusE2 ELSE DataBusLater)
                    ELSE <<>>]

NextInversion ==
    \/ Fork \/ YieldCall \/ NiceCall \/ Acquire \/ ReleaseCall
    \/ AcquireE2 \/ ReleaseE2Call \/ Printf \/ Finish

SpecInversion == InitInversion /\ [][NextInversion]_vars

Done(t) == todo[t] = <<>>

(* C3 as stated: Data Bus completes first, then Weather, then              *)
(* Communication.                                                          *)
C3_Original ==
    (\A t \in {Weather, Communication, DataBus} : Done(t))
        => out = <<"Data bus liberated", "Weather analyzed", "Communications">>

(* C3 amended: Weather, which holds the lock, completes first with the     *)
(* inherited priority, then Data Bus, then Communication; Communication    *)
(* prints nothing before Data Bus has printed.                             *)
C3_InversionAvoided ==
    /\ (\A t \in {Weather, Communication, DataBus} : Done(t))
          => out = <<"Weather analyzed", "Data bus liberated", "Communications">>
    /\ \A i \in 1 .. Len(out) :
          out[i] = "Communications"
            => \E j \in 1 .. (i - 1) : out[j] = "Data bus liberated"
    /\ ~fatal

C3_Witness ==
    /\ \A t \in {Weather, Communication, DataBus} : Done(t)
    /\ Len(out) = 3
    /\ currentThread = "main"
    /\ todo["main"] = <<>>

----------------------------------------------------------------------------
(* ThreadTestPrio: four threads forked with nice 0, 1, 2, 3, the main      *)
(* thread at nice 19; each prints its name NumIter times, yielding after   *)
(* each line, and then prints that it has finished.  out holds the names   *)
(* of the threads in the order of their lines.                             *)

NumIter == 10

PrioTestThreads == <<"T1", "T2", "T3", "T4">>

RECURSIVE Repeat(_, _)
Repeat(calls, n) == IF n = 0 THEN <<>> ELSE calls \o Repeat(calls, n - 1)

SimpleSimpleThread(name) ==
    Repeat(<< <<"printf", name, NULL>>, <<"Yield", NULL, NULL>> >>, NumIter)
        \o << <<"printf", name, NULL>> >>

RECURSIVE ForkAll(_)
ForkAll(num) ==
    IF num = Len(PrioTestThreads) THEN <<>>
    ELSE << <<"Nice", PrioTestThreads[num + 1], num>>,
            <<"Fork", PrioTestThreads[num + 1], NULL>> >> \o ForkAll(num + 1)

ThreadTestPrio ==
    ForkAll(0) \o << <<"Nice", "main", 19>> >> \o SimpleSimpleThread("main")

InitPrio ==
    /\ Boot
    /\ KernelOnly
    /\ bitmap = {}
    /\ priority = [t \in Threads |-> DEFAULT_PRIORITY]
    /\ prioInherit = [l \in Locks |-> FALSE]
    /\ mustJoin = [t \in Threads |-> FALSE]
    /\ free = [t \in Threads |-> FALSE]
    /\ budget = [t \in Threads |-> 0]
    /\ todo = [t \in Threads |->
                IF t = "main" THEN ThreadTestPrio
                ELSE SimpleSimpleThread(t) \o << <<"Finish", NULL, NULL>> >>]

NextPrio == Fork \/ YieldCall \/ NiceCall \/ Printf \/ Finish

SpecPrio == InitPrio /\ [][NextPrio]_vars

(* C9 as stated: no line of a thread comes after a line of a thread of     *)
(* larger nice, so that each thread prints all its lines before any        *)
(* thread of larger nice runs and the main thread's lines are last.        *)
C9_PriorityOrder ==
    \A i, j \in 1 .. Len(out) :
        i < j => priority[out[i]] <= priority[out[j]]

----------------------------------------------------------------------------
(* Two senders and two receivers on one channel, all at the default        *)
(* priority, with the timer running: T1 sends 1 and then 2, T2 sends 3,    *)
(* T3 receives twice and T4 once.                                          *)

ChannelProgram ==
    [t \in Threads |->
        IF t = "main"
        THEN << <<"Fork", "T1", NULL>>, <<"Fork", "T2", NULL>>,
                <<"Fork", "T3", NULL>>, <<"Fork", "T4", NULL>>,
                <<"Finish", NULL, NULL>> >>
        ELSE IF t = "T1"
        THEN << <<"Send", TestChannel, 1>>, <<"Send", TestChannel, 2>>,
                <<"Finish", NULL, NULL>> >>
        ELSE IF t = "T2"
        THEN << <<"Send", TestChannel, 3>>, <<"Finish", NULL, NULL>> >>
        ELSE IF t = "T3"
        THEN << <<"Receive", TestChannel, NULL>>, <<"Receive", TestChannel, NULL>>,
                <<"Finish", NULL, NULL>> >>
        ELSE << <<"Receive", TestChannel, NULL>>, <<"Finish", NULL, NULL>> >>]

InitChannel ==
    /\ Boot
    /\ KernelOnly
    /\ bitmap = {}
    /\ priority = [t \in Threads |-> DEFAULT_PRIORITY]
    /\ prioInherit = [l \in Locks |-> FALSE]
    /\ mustJoin = [t \in Threads |-> FALSE]
    /\ free = [t \in Threads |-> FALSE]
    /\ budget = [t \in Threads |-> 0]
    /\ todo = ChannelProgram

NextChannel ==
    \/ Fork \/ SendCall \/ Store \/ ReceiveCall \/ Load \/ P \/ VCall
    \/ Acquire \/ ReleaseCall \/ Finish \/ TimerYield

SpecChannel == InitChannel /\ [][NextChannel]_vars

IsPrefix(s, t) == Len(s) <= Len(t) /\ \A i \in 1 .. Len(s) : s[i] = t[i]

(* C6 as stated: the messages are received one each, none lost, repeated   *)
(* or overwritten, in the order in which the senders arrived in Send       *)
(* (reached sendLock->Acquire()); a Send returns only after its message   *)
(* was received.                                                           *)
C6_Original ==
    /\ IsPrefix(hist.received, hist.stored)
    /\ IsPrefix(hist.received, hist.arrived)
    /\ \A i \in 1 .. Len(hist.completed) :
          \E j \in 1 .. Len(hist.received) : hist.received[j] = hist.completed[i]

(* C6 amended: the same, in the order in which the senders obtained the    *)
(* send lock.                                                              *)
C6_PairedInLockOrder ==
    /\ IsPrefix(hist.received, hist.stored)
    /\ Len(hist.stored) <= Len(hist.received) + 1
    /\ IsPrefix(hist.completed, hist.received)
    /\ \A i, j \in 1 .. Len(hist.received) :
          i # j => hist.received[i] # hist.received[j]
    /\ ~fatal

C6_Witness ==
    /\ Len(hist.received) = 3
    /\ Len(hist.completed) = 3
    /\ hist.received # hist.arrived

----------------------------------------------------------------------------
(* Joinable threads T1 and T2 exit with a code each (T2 may call Finish,   *)
(* which sends 0); main joins T1, then T2, then T1 a second time, while T3 *)
(* joins T2 as well.  The timer is running.                                *)

JoinProgram(c1, c2, viaFinish) ==
    [t \in Threads |->
        IF t = "main"
        THEN << <<"Fork", "T1", NULL>>, <<"Fork", "T2", NULL>>,
                <<"Fork", "T3", NULL>>,
                <<"Join", "T1", NULL>>, <<"Join", "T2", NULL>>,
                <<"Join", "T1", NULL>>, <<"Finish", NULL, NULL>> >>
        ELSE IF t = "T1" THEN << <<"Exit", c1, NULL>> >>
        ELSE IF t = "T2"
        THEN IF viaFinish THEN << <<"Finish", NULL, NULL>> >>
             ELSE << <<"Exit", c2, NULL>> >>
        ELSE IF t = "T3"
        THEN << <<"Join", "T2", NULL>>, <<"Finish", NULL, NULL>> >>
        ELSE <<>>]

InitJoin ==
    /\ Boot
    /\ KernelOnly
    /\ bitmap = {}
    /\ priority = [t \in Threads |-> DEFAULT_PRIORITY]
    /\ prioInherit = [l \in Locks |-> FALSE]
    /\ mustJoin = [t \in Threads |-> t \in {"T1", "T2"}]
    /\ free = [t \in Threads |-> FALSE]
    /\ budget = [t \in Threads |-> 0]
    /\ \E c1, c2 \in ExitCodes, viaFinish \in BOOLEAN :
          todo = JoinProgram(c1, c2, viaFinish)

NextJoin ==
    \/ Fork \/ Join \/ JoinReturn \/ Finish \/ FinishRest
    \/ Acquire \/ Store \/ VCall \/ P \/ ReleaseCall \/ Load \/ TimerYield

SpecJoin == InitJoin /\ [][NextJoin]_vars

----------------------------------------------------------------------------
(* The scheduler of Entrega2 keeps its own bitmap of MAX_PRIO bits in      *)
(* unsigned longs and clears BITMAP_SIZE bytes of it in its constructor.   *)
(* The bits from BITMAP_SIZE * BITS_IN_BYTE on keep whatever the allocator *)
(* left there; GarbageBits is a sample of them among the levels.           *)

FirstBitNotCleared == BITMAP_SIZE * BITS_IN_BYTE

GarbageBits == {FirstBitNotCleared, DEFAULT_PRIORITY - 1, DEFAULT_PRIORITY + 1}

InitE2 ==
    /\ Boot
    /\ KernelOnly
    /\ bitmap \in SUBSET GarbageBits
    /\ priority = [t \in Threads |-> DEFAULT_PRIORITY + InitialNice[t]]
    /\ prioInherit = [l \in Locks |-> FALSE]
    /\ mustJoin = [t \in Threads |-> FALSE]
    /\ free = [t \in Threads |-> t \in LockThreads]
    /\ budget = [t \in Threads |-> IF t \in LockThreads THEN MaxOps ELSE 0]
    /\ todo = [t \in Threads |-> <<>>]

NextE2 == Fork \/ YieldCall \/ NiceCall \/ Finish

SpecE2 == InitE2 /\ [][NextE2]_vars

NonEmptyLevels == {p \in Levels : queue[p] # <<>>}

(* C8: bit p of the ready bitmap is set exactly when level p holds a       *)
(* thread, and Pop returns the head of the lowest-numbered level that      *)
(* holds one, null when none does.                                         *)
C8_BitmapMatchesLevels ==
    /\ \A p \in Levels : (p \in bitmap) <=> (queue[p] # <<>>)
    /\ PrioPop(M).item =
          IF NonEmptyLevels = {} THEN NULL
          ELSE Head(queue[CHOOSE p \in NonEmptyLevels :
                               \A q \in NonEmptyLevels : p <= q])

----------------------------------------------------------------------------
(* Condition.  Its queue is a PrioArray of the semaphores of the waiting   *)
(* threads, each appended at the priority its thread has when it waits.    *)
(* A semaphore in the queue is named by its thread.                        *)

conditionLock == <<"lock", "L1">>

CondArray(m) == [queue |-> m.condQueue, bitmap |-> m.condBitmap, fatal |-> m.fatal]

SetCondArray(m, a) ==
    [m EXCEPT !.condQueue = a.queue, !.condBitmap = a.bitmap, !.fatal = a.fatal]

(* Condition::Wait from its entry to the call of conditionLock->Release(). *)
WaitEntry(m) ==
    IF ~IsHeldByCurrentThread(m, conditionLock) THEN Abort(m)
    ELSE LET m1 == [m EXCEPT !.value[WaitSem(m.cur)] = 0,
                             !.waiters[WaitSem(m.cur)] = <<>>]
         IN SetCondArray(m1, PrioAppend(CondArray(m1), m.cur, GetPriority(m, m.cur)))

(* Condition::Wait that keeps the lock while it waits. *)
WaitNoRelease(t) ==
    << <<"P", WaitSem(t), NULL>>,
       <<"Acquire", conditionLock, NULL>>,
       <<"Wait.return", NULL, NULL>> >>

(* Condition::Wait from conditionLock->Release() on, as calls of thread t. *)
Wait(t) ==
    << <<"Release", conditionLock, NULL>>,
       <<"P", WaitSem(t), NULL>>,
       <<"Acquire", conditionLock, NULL>>,
       <<"Wait.return", NULL, NULL>> >>

(* Condition::Signal that wakes every waiter. *)
RECURSIVE SignalWakesAll(_)
SignalWakesAll(m) ==
    IF ~IsHeldByCurrentThread(m, conditionLock) THEN Abort(m)
    ELSE LET r == PrioPop(CondArray(m)) IN
         IF r.item # NULL
         THEN SignalWakesAll(V(SetCondArray(m, r.m), WaitSem(r.item)))
         ELSE SetCondArray(m, r.m)

(* Condition::Signal that banks the signal in the caller's semaphore when  *)
(* nobody waits.                                                           *)
SignalBanked(m) ==
    IF ~IsHeldByCurrentThread(m, conditionLock) THEN Abort(m)
    ELSE LET r == PrioPop(CondArray(m)) IN
         IF r.item # NULL
         THEN V(SetCondArray(m, r.m), WaitSem(r.item))
         ELSE V(SetCondArray(m, r.m), WaitSem(m.cur))

Signal(m) ==
    IF ~IsHeldByCurrentThread(m, conditionLock) THEN Abort(m)
    ELSE LET r == PrioPop(CondArray(m)) IN
         IF r.item # NULL
         THEN V(SetCondArray(m, r.m), WaitSem(r.item))
         ELSE SetCondArray(m, r.m)

RECURSIVE BroadcastLoop(_)
BroadcastLoop(m) ==
    LET r == PrioPop(CondArray(m)) IN
    IF r.item # NULL
    THEN BroadcastLoop(V(SetCondArray(m, r.m), WaitSem(r.item)))
    ELSE SetCondArray(m, r.m)

Broadcast(m) ==
    IF ~IsHeldByCurrentThread(m, conditionLock) THEN Abort(m)
    ELSE BroadcastLoop(m)

(* Bookkeeping for the properties: the threads waiting, in the order in    *)
(* which they began to wait, and the one a signal should prefer.           *)
Without(w, gone) == SelectSeq(w, LAMBDA t : t \notin gone)

Best(w, wp) ==
    IF w = <<>> THEN NULL
    ELSE w[CHOOSE i \in 1 .. Len(w) :
             \A j \in 1 .. Len(w) :
                 \/ wp[w[i]] < wp[w[j]]
                 \/ wp[w[i]] = wp[w[j]] /\ i <= j]

(* The threads whose wait semaphore the step from m to n has raised. *)
Woken(m, n) == {t \in Threads : n.value[WaitSem(t)] > m.value[WaitSem(t)]}

WaitCall ==
    /\ Live
    /\ Calls("Wait", NULL, NULL)
    /\ LET t == Cur
           n == WaitEntry(M)
       IN /\ Commit(n)
          /\ Then(t, IF n.fatal THEN <<>> ELSE Wait(t), 0)
          /\ hist' = [Step("Wait", t, conditionLock, FALSE) EXCEPT
                         !.misuse = (holder[conditionLock] # t),
                         !.waiting = IF n.fatal THEN @ ELSE @ \o <<t>>,
                         !.waitPrio[t] = priority[t],
                         !.signalled[t] = FALSE]
    /\ UNCHANGED <<out, result>>
    /\ Static

(* Condition::Wait: delete semaphore, return. *)
WaitReturn ==
    /\ Live
    /\ Calls("Wait.return", NULL, NULL)
    /\ Commit(M)
    /\ Then(Cur, <<>>, 0)
    /\ hist' = Step("Wait.return", Cur, conditionLock, TRUE)
    /\ UNCHANGED <<out, result>>
    /\ Static

SignalCall ==
    /\ Live
    /\ Calls("Signal", NULL, NULL)
    /\ LET n == Signal(M) IN
        /\ Commit(n)
        /\ Then(Cur, <<>>, 0)
        /\ hist' = [Step("Signal", Cur, conditionLock, TRUE) EXCEPT
                       !.misuse = (holder[conditionLock] # Cur),
                       !.woken = Woken(M, n),
                       !.longest = IF hist.waiting = <<>> THEN NULL
                                   ELSE Head(hist.waiting),
                       !.best = Best(hist.waiting, hist.waitPrio),
                       !.waiting = Without(@, Woken(M, n)),
                       !.signalled = [t \in Threads |->
                                         @[t] \/ t \in Woken(M, n)]]
    /\ UNCHANGED <<out, result>>
    /\ Static

BroadcastCall ==
    /\ Live
    /\ Calls("Broadcast", NULL, NULL)
    /\ LET n == Broadcast(M) IN
        /\ Commit(n)
        /\ Then(Cur, <<>>, 0)
        /\ hist' = [Step("Broadcast", Cur, conditionLock, TRUE) EXCEPT
                       !.misuse = (holder[conditionLock] # Cur),
                       !.woken = Woken(M, n),
                       !.longest = IF hist.waiting = <<>> THEN NULL
                                   ELSE Head(hist.waiting),
                       !.best = Best(hist.waiting, hist.waitPrio),
                       !.waiting = Without(@, Woken(M, n)),
                       !.signalled = [t \in Threads |->
                                         @[t] \/ t \in Woken(M, n)]]
    /\ UNCHANGED <<out, result>>
    /\ Static

(* Waiters T1 and T2 and a signaller T3 on one condition, with the timer   *)
(* running.  T1 may have a lower priority than the others; T3 signals      *)
(* once and then signals again or broadcasts; T2 may call Wait without     *)
(* the lock.                                                               *)
Waiter ==
    << <<"Acquire", conditionLock, NULL>>, <<"Wait", NULL, NULL>>,
       <<"Release", conditionLock, NULL>>, <<"Finish", NULL, NULL>> >>

Signaller(second) ==
    << <<"Acquire", conditionLock, NULL>>, <<"Signal", NULL, NULL>>,
       <<"Release", conditionLock, NULL>>,
       <<"Acquire", conditionLock, NULL>>, <<second, NULL, NULL>>,
       <<"Release", conditionLock, NULL>>, <<"Finish", NULL, NULL>> >>

ConditionProgram(second, careless) ==
    [t \in Threads |->
        IF t = "main"
        THEN << <<"Fork", "T1", NULL>>, <<"Fork", "T2", NULL>>,
                <<"Fork", "T3", NULL>>, <<"Finish", NULL, NULL>> >>
        ELSE IF t = "T3" THEN Signaller(second)
        ELSE IF t = "T2" /\ careless
        THEN << <<"Wait", NULL, NULL>>, <<"Finish", NULL, NULL>> >>
        ELSE IF t \in {"T1", "T2"} THEN Waiter
        ELSE <<>>]

InitCondition ==
    /\ Boot
    /\ KernelOnly
    /\ bitmap = {}
    /\ \E n1 \in {0, 1} :
          priority = [t \in Threads |->
                        IF t = "T1" THEN DEFAULT_PRIORITY + n1 ELSE DEFAULT_PRIORITY]
    /\ prioInherit = [l \in Locks |-> FALSE]
    /\ mustJoin = [t \in Threads |-> FALSE]
    /\ free = [t \in Threads |-> FALSE]
    /\ budget = [t \in Threads |-> 0]
    /\ \E second \in {"Signal", "Broadcast"}, careless \in BOOLEAN :
          todo = ConditionProgram(second, careless)

NextCondition ==
    \/ Fork \/ Acquire \/ ReleaseCall \/ P \/ WaitCall \/ WaitReturn
    \/ SignalCall \/ BroadcastCall \/ Finish \/ TimerYield

SpecCondition == InitCondition /\ [][NextCondition]_vars

InWait(t) == InSeq(waiters[WaitSem(t)], t)

C13_Original ==
    /\ (hist.op = "Signal" /\ ~hist.misuse /\ hist.longest # NULL)
          => hist.woken = {hist.longest}
    /\ \A t \in Threads : value[WaitSem(t)] <= 1

(* C13 amended: a Signal made while threads wait wakes exactly one: the    *)
(* one of highest priority (as of its Wait), and among those of that       *)
(* priority the one that has waited longest; no semaphore is raised twice. *)
C13_SignalWakesBestWaiter ==
    /\ (hist.op = "Signal" /\ ~hist.misuse /\ hist.longest # NULL)
          => hist.woken = {hist.best}
    /\ (hist.op = "Signal" /\ ~hist.misuse /\ hist.longest = NULL)
          => hist.woken = {}
    /\ \A t \in Threads : value[WaitSem(t)] <= 1

C13_Witness ==
    /\ hist.op = "Signal"
    /\ hist.longest # NULL
    /\ hist.best # hist.longest
    /\ hist.waiting # <<>>

----------------------------------------------------------------------------
(* Virtual memory: AddressSpace, CoreMap, Swap and the software-managed    *)
(* TLB.  The sources hold three builds of the frame table, told apart by   *)
(* the routine that takes a frame from another page:                       *)
(*   "MapPhysPage"     Entrega4's AddressSpace with the CoreMap class      *)
(*                     (MapPhysPage, FreeAll) that calls SwapPage;         *)
(*   "MoveFrameToSwap" the CoreMap namespace of vmem/core_map.cc, which    *)
(*                     evicts in place, under the same AddressSpace;       *)
(*   "EvictPage"       the list of CoreMapEntry (RegisterPage, EvictPage,  *)
(*                     RemoveCurrentThread) under Trunk's AddressSpace.    *)
(* The whole state is the record vm; the routines are operators on it.     *)
(* A page's bytes are one number: negative for the image loaded from the   *)
(* executable, 0 for memory never written, positive for a store.           *)

PAGE_SIZE == 128
USER_STACK_SIZE == 1024

(* Bounds of the model *)
TLB_SIZE == 2          \* entries of the TLB
NUM_PHYS_PAGES == 2    \* frames of main memory
MaxWrites == 2         \* stores the user programs make

Procs == {"T1", "T2"}
Builds == {"MapPhysPage", "MoveFrameToSwap", "EvictPage"}
Frames == 0 .. (NUM_PHYS_PAGES - 1)
Slots == 0 .. (TLB_SIZE - 1)

(* F of a value computed once. *)
With(x, F(_)) == F(x)
DivRoundUp(a, b) == (a + b - 1) \div b
Max(a, b) == IF a >= b THEN a ELSE b
Min(a, b) == IF a <= b THEN a ELSE b

(* Executable: the segment sizes of the NOFF header.  The code starts at   *)
(* virtual address 0 and the initialized data follows it.                  *)
Exe(code, initData, uninitData) ==
    [codeSize |-> code, codeAddr |-> 0,
     initDataSize |-> initData, initDataAddr |-> code,
     uninitDataSize |-> uninitData]
ExeSize(exe) == exe.codeSize + exe.initDataSize + exe.uninitDataSize

(* AddressSpace::AddressSpace: the number of pages. *)
NumPages(exe) == DivRoundUp(ExeSize(exe) + USER_STACK_SIZE, PAGE_SIZE)

(* The program the processes run: a page of code, a page with the last     *)
(* byte of the code, the data and the bss, then the stack.                 *)
UserExe == Exe(PAGE_SIZE + 1, 2, 1)
Pages == 0 .. (NumPages(UserExe) - 1)
(* The pages the user programs touch: the first process its code and its   *)
(* data, the second its data.                                              *)
WorkingSet(t) == IF t = "T1" THEN {0, 1} ELSE {1}

(* AddressSpace::AddressSpace under USE_TLB: every entry invalid. *)
NoEntry == [physicalPage |-> 0, valid |-> FALSE, use |-> FALSE,
            dirty |-> FALSE, readOnly |-> FALSE, swap |-> FALSE]
NoTlbEntry == [virtualPage |-> 0, physicalPage |-> 0, valid |-> FALSE,
               use |-> FALSE, dirty |-> FALSE, readOnly |-> FALSE,
               swap |-> FALSE]
NoOwner == [tid |-> NULL, vpn |-> 0]

(* The bytes the executable and the zero fill give page vpn. *)
ExeImage(vpn) == 0 - (vpn + 1)

VMAbort(v) == [v EXCEPT !.fatal = TRUE]

(* pageTable[vpn].base = tlb[i]: the translation entry without the swap    *)
(* flag of PageTableEntry.  The list build copies the whole entry.         *)
SetBase(v, pte, e) ==
    [pte EXCEPT !.physicalPage = e.physicalPage, !.valid = e.valid,
                !.use = e.use, !.dirty = e.dirty, !.readOnly = e.readOnly,
                !.swap = IF v.build = "EvictPage" THEN e.swap ELSE @]

(* The loop of AddressSpace::UpdatePageTable and the first loop of         *)
(* CoreMap::MoveFrameToSwap, from slot i on.                               *)
RECURSIVE UpdateLoop(_, _)
UpdateLoop(v, i) ==
    IF i = TLB_SIZE THEN v
    ELSE LET e == v.tlb[i]
         IN  UpdateLoop(IF e.valid
                        THEN [v EXCEPT !.pageTable[v.currentThread][e.virtualPage] =
                                            SetBase(v, @, e)]
                        ELSE v, i + 1)

UpdatePageTable(v) == UpdateLoop(v, 0)

(* AddressSpace::EvictTlb of the running space. *)
EvictTlb(v) ==
    LET cur == v.currentThread
        slot == v.tlbVictim[cur]
        victim == v.tlb[slot]
    IN  [IF victim.valid
         THEN [v EXCEPT !.pageTable[cur][victim.virtualPage] = SetBase(v, @, victim),
                        !.tlb[slot].valid = FALSE]
         ELSE v
            EXCEPT !.tlbVictim[cur] = (slot + 1) % TLB_SIZE, !.ret = slot]

(* AddressSpace::SaveState: TLB_SIZE calls of EvictTlb. *)
RECURSIVE SaveLoop(_, _)
SaveLoop(v, i) == IF i = TLB_SIZE THEN v ELSE SaveLoop(EvictTlb(v), i + 1)

SaveState(v) == SaveLoop(v, 0)

(* AddressSpace::RestoreState under USE_TLB. *)
RestoreState(v) == [v EXCEPT !.tlb = [i \in Slots |-> [@[i] EXCEPT !.valid = FALSE]]]

(* Swap::WriteSwap and Swap::PullSwap of process t's swap file. *)
WriteSwap(v, t, vpn, ppn) == [v EXCEPT !.swapFile[t][vpn] = v.mainMemory[ppn]]

PullSwap(v, t, vpn, ppn) == [v EXCEPT !.mainMemory[ppn] = v.swapFile[t][vpn]]

(* AddressSpace::SwapPage of Entrega4, the loop over the TLB from slot i:  *)
(* v.flag is the local variable dirty.                                     *)
RECURSIVE SwapPageTlb(_, _, _)
SwapPageTlb(v, vpn, i) ==
    IF i = TLB_SIZE THEN v
    ELSE LET e == v.tlb[i]
         IN  SwapPageTlb(IF e.valid /\ e.virtualPage = vpn
                         THEN [v EXCEPT !.tlb[i].valid = FALSE, !.flag = e.dirty]
                         ELSE v, vpn, i + 1)

(* SwapPage of Entrega4 without the look at the TLB. *)
SwapPageIgnoresTlb(v, t, vpn) ==
    IF ~(vpn \in Pages) \/ ~v.pageTable[t][vpn].valid THEN VMAbort(v)
    ELSE With([v EXCEPT !.pageTable[t][vpn].valid = FALSE,
                        !.flag = v.pageTable[t][vpn].dirty],
              LAMBDA v2 :
             IF v2.flag
             THEN [WriteSwap(v2, t, vpn, v2.pageTable[t][vpn].physicalPage)
                      EXCEPT !.pageTable[t][vpn].swap = TRUE,
                             !.pageTable[t][vpn].dirty = FALSE]
             ELSE v2)

(* AddressSpace::SwapPage of Entrega4, on the space of process t. *)
SwapPageE4(v, t, vpn) ==
    IF ~(vpn \in Pages) \/ ~v.pageTable[t][vpn].valid THEN VMAbort(v)
    ELSE With([v EXCEPT !.pageTable[t][vpn].valid = FALSE,
                        !.flag = v.pageTable[t][vpn].dirty],
              LAMBDA v1 :
         With(IF t = v.currentThread THEN SwapPageTlb(v1, vpn, 0) ELSE v1,
              LAMBDA v2 :
             IF v2.flag
             THEN [WriteSwap(v2, t, vpn, v2.pageTable[t][vpn].physicalPage)
                      EXCEPT !.pageTable[t][vpn].swap = TRUE,
                             !.pageTable[t][vpn].dirty = FALSE]
             ELSE v2))

(* AddressSpace::SwapPage of Trunk, the loop over the TLB from slot i. *)
RECURSIVE SwapPageTrunkTlb(_, _, _)
SwapPageTrunkTlb(v, vpn, i) ==
    IF i = TLB_SIZE THEN v
    ELSE LET e == v.tlb[i]
         IN  SwapPageTrunkTlb(IF e.valid /\ e.virtualPage = vpn
                              THEN [v EXCEPT !.tlb[i].valid = FALSE,
                                             !.tlb[i].swap = ~e.readOnly]
                              ELSE v, vpn, i + 1)

(* AddressSpace::SwapPage of Trunk, on the space of process t. *)
SwapPage(v, t, vpn) ==
    IF ~v.pageTable[t][vpn].valid \/ v.pageTable[t][vpn].swap THEN VMAbort(v)
    ELSE With(SwapPageTrunkTlb(v, vpn, 0), LAMBDA v1 :
         With([v1 EXCEPT !.pageTable[t][vpn].valid = FALSE,
                         !.pageTable[t][vpn].swap = ~v1.pageTable[t][vpn].readOnly],
              LAMBDA v2 :
             IF v2.pageTable[t][vpn].swap
             THEN WriteSwap(v2, t, vpn, v2.pageTable[t][vpn].physicalPage)
             ELSE v2))

(* MoveFrameToSwap that leaves the TLB as it is. *)
InvalidateTlbSkipped(v, vpn, j) == v

(* CoreMap::MoveFrameToSwap: invalidate the first TLB entry of page vpn. *)
RECURSIVE InvalidateTlb(_, _, _)
InvalidateTlb(v, vpn, j) ==
    IF j = TLB_SIZE THEN v
    ELSE IF v.tlb[j].valid /\ v.tlb[j].virtualPage = vpn
         THEN [v EXCEPT !.tlb[j].valid = FALSE]
         ELSE InvalidateTlb(v, vpn, j + 1)

(* CoreMap::MoveFrameToSwap, the clock from pass loop and step i.  A core  *)
(* map entry of a thread that threadMap no longer holds is a null pointer  *)
(* dereference: the kernel stops.  The result is in v.ret.                 *)
RECURSIVE MoveFrameLoop(_, _, _)
MoveFrameLoop(v, loop, i) ==
    IF loop = 4 THEN VMAbort(v)
    ELSE IF i = NUM_PHYS_PAGES THEN MoveFrameLoop(v, loop + 1, 0)
    ELSE LET victimInfo == v.coreMap[v.swapVictim]
             tid == victimInfo.tid
             vpn == victimInfo.vpn
         IN  IF ~(tid \in v.alive) THEN VMAbort(v)
             ELSE
             LET victimEntry == v.pageTable[tid][vpn]
                 suitable == CASE loop = 0 -> ~victimEntry.use /\ ~victimEntry.dirty
                               [] loop = 1 -> ~victimEntry.use
                               [] loop = 2 -> ~victimEntry.dirty
                               [] OTHER -> TRUE
                 v1 == IF loop = 1 THEN [v EXCEPT !.pageTable[tid][vpn].use = FALSE]
                       ELSE v
                 next == (v.swapVictim + 1) % NUM_PHYS_PAGES
             IN  IF suitable
                 THEN With(IF tid = v.currentThread
                           THEN InvalidateTlb(v1, vpn, 0) ELSE v1,
                           LAMBDA v2 :
                      With([v2 EXCEPT !.pageTable[tid][vpn].valid = FALSE],
                           LAMBDA v3 :
                      With(IF victimEntry.dirty
                           THEN [WriteSwap(v3, tid, vpn, v.swapVictim)
                                    EXCEPT !.pageTable[tid][vpn].dirty = FALSE,
                                           !.pageTable[tid][vpn].swap = TRUE]
                           ELSE v3,
                           LAMBDA v4 :
                          [v4 EXCEPT !.ret = v.swapVictim, !.swapVictim = next])))
                 ELSE MoveFrameLoop([v1 EXCEPT !.swapVictim = next], loop, i + 1)

(* MoveFrameToSwap without its first loop, which stores the TLB entries    *)
(* into the page table.                                                    *)
MoveFrameToSwapNoUpdate(v) == MoveFrameLoop(v, 0, 0)

MoveFrameToSwap(v) == MoveFrameLoop(UpdateLoop(v, 0), 0, 0)

(* Bitmap::Find of physPages: the lowest clear bit, marked; the caller has *)
(* checked that there is one.                                              *)
FreeFrame(v) == CHOOSE f \in Frames \ v.physPages :
                    \A g \in Frames \ v.physPages : f <= g

(* CoreMap::Find of the namespace. *)
Find(v) ==
    IF Frames \ v.physPages # {}
    THEN [v EXCEPT !.ret = FreeFrame(v), !.physPages = @ \cup {FreeFrame(v)}]
    ELSE MoveFrameToSwap(v)

(* The replacement policy of the CoreMap class of Entrega4: the four       *)
(* passes over the frames, and SwapPage of the owning space on the victim. *)
RECURSIVE FreePageLoop(_, _, _)
FreePageLoop(v, pass, i) ==
    IF pass = 4 THEN VMAbort(v)
    ELSE IF i = NUM_PHYS_PAGES THEN FreePageLoop(v, pass + 1, 0)
    ELSE LET tid == v.coreMap[v.swapVictim].tid
             vpn == v.coreMap[v.swapVictim].vpn
         IN  IF ~(tid \in v.alive) \/ ~v.pageTable[tid][vpn].valid THEN VMAbort(v)
             ELSE
             LET e == v.pageTable[tid][vpn]
                 suitable == CASE pass = 0 -> ~e.use /\ ~e.dirty
                               [] pass = 1 -> ~e.use
                               [] pass = 2 -> ~e.dirty
                               [] OTHER -> TRUE
                 v1 == IF pass = 1 THEN [v EXCEPT !.pageTable[tid][vpn].use = FALSE]
                       ELSE v
                 next == (v.swapVictim + 1) % NUM_PHYS_PAGES
             IN  IF suitable
                 THEN [SwapPageE4(v1, tid, vpn) EXCEPT
                          !.ret = v.swapVictim, !.swapVictim = next]
                 ELSE FreePageLoop([v1 EXCEPT !.swapVictim = next], pass, i + 1)

FreePage(v) == FreePageLoop(v, 0, 0)

(* CoreMap::MapPhysPage: a free frame, or a victim's; the new owner is     *)
(* (currentThread, vpn).  Under the namespace build the frame comes from   *)
(* CoreMap::Find.                                                          *)
MapPhysPage(v, vpn) ==
    With(IF v.build = "MoveFrameToSwap" THEN Find(v)
         ELSE IF Frames \ v.physPages # {}
         THEN [v EXCEPT !.ret = FreeFrame(v), !.physPages = @ \cup {FreeFrame(v)}]
         ELSE FreePage(v),
         LAMBDA v1 :
        IF v1.fatal THEN v1
        ELSE [v1 EXCEPT !.coreMap[v1.ret] = [tid |-> v.currentThread, vpn |-> vpn]])

(* CoreMap::FreeAll: every frame owned by process tid is released. *)
FreeAll(v, tid) ==
    [v EXCEPT !.physPages = @ \ {f \in Frames : v.coreMap[f].tid = tid},
              !.coreMap = [f \in Frames |-> IF @[f].tid = tid THEN NoOwner ELSE @[f]]]

(* CoreMap::RegisterPage of the list build. *)
RegisterPage(v, vpn, ppn) ==
    [v EXCEPT !.coreMapList = Append(@, [vpn |-> vpn, ppn |-> ppn,
                                         thread |-> v.currentThread]),
              !.physPages = @ \cup {ppn}]

(* CoreMap::EvictPage: Pop until an entry with a thread; List::Pop of an   *)
(* empty list returns nullptr and the assertion fails.                     *)
RECURSIVE EvictPage(_)
EvictPage(v) ==
    IF v.coreMapList = <<>> THEN VMAbort(v)
    ELSE With(Head(v.coreMapList), LAMBDA entry :
         With([v EXCEPT !.coreMapList = Tail(@)], LAMBDA v1 :
             IF entry.thread = NULL THEN EvictPage(v1)
             ELSE [SwapPage([v1 EXCEPT !.physPages = @ \ {entry.ppn}],
                            entry.thread, entry.vpn)
                      EXCEPT !.ret = entry.ppn]))

(* InvalidateEntry applied to the list by CoreMap::RemoveCurrentThread. *)
RemoveCurrentThread(v) ==
    LET mine(entry) == entry.thread = v.currentThread
    IN  [v EXCEPT !.coreMapList =
                      [k \in DOMAIN @ |-> IF mine(@[k])
                                          THEN [@[k] EXCEPT !.thread = NULL]
                                          ELSE @[k]],
                  !.physPages = @ \ {v.coreMapList[k].ppn :
                                        k \in {j \in DOMAIN v.coreMapList :
                                                  mine(v.coreMapList[j])}}]

(* The frame of a fault under the list build: a free frame of physPages,   *)
(* or the one EvictPage gives.                                             *)
FindPhysPage(v) ==
    IF Frames \ v.physPages # {}
    THEN [v EXCEPT !.ret = FreeFrame(v), !.physPages = @ \cup {FreeFrame(v)}]
    ELSE EvictPage(v)

(* The three copies of AddressSpace::GetTranslationEntry for a page that   *)
(* is loaded from the executable: which segments the page meets, as the    *)
(* three conditions of the code decide it.                                 *)
VirtualStart(vpn) == vpn * PAGE_SIZE
VirtualEnd(vpn) == (vpn + 1) * PAGE_SIZE
CodeEnd(exe) == exe.codeAddr + exe.codeSize
InitDataEnd(exe) == exe.initDataAddr + exe.initDataSize
UninitDataStart(exe) == IF exe.initDataSize > 0 THEN InitDataEnd(exe) ELSE CodeEnd(exe)
UninitDataEnd(exe) == UninitDataStart(exe) + exe.uninitDataSize

LoadsCode(exe, vpn) ==
    VirtualStart(vpn) <= CodeEnd(exe) /\ VirtualEnd(vpn) >= exe.codeAddr
LoadsData(exe, vpn) ==
    /\ exe.initDataSize > 0
    /\ VirtualStart(vpn) <= InitDataEnd(exe)
    /\ VirtualEnd(vpn) >= exe.initDataAddr
LoadsBss(exe, vpn) ==
    /\ exe.uninitDataSize > 0
    /\ VirtualStart(vpn) <= UninitDataEnd(exe)
    /\ VirtualEnd(vpn) >= UninitDataStart(exe)

(* writeSize of a copy: the bytes of segment [from, to) inside the page. *)
WriteSize(vpn, from, to) == Min(VirtualEnd(vpn), to) - Max(from, VirtualStart(vpn))

(* The readOnly bit after the three copies; before is the bit the entry    *)
(* had.                                                                    *)
ReadOnlyOnceLoaded(exe, vpn, before) ==
    LET afterCode == IF LoadsCode(exe, vpn) THEN TRUE ELSE before
        afterData == IF LoadsData(exe, vpn) THEN FALSE ELSE afterCode
    IN  IF LoadsBss(exe, vpn) THEN FALSE ELSE afterData

(* Some byte of the frame is written by the three copies. *)
WritesFrame(exe, vpn) ==
    \/ LoadsCode(exe, vpn) /\ WriteSize(vpn, exe.codeAddr, CodeEnd(exe)) > 0
    \/ LoadsData(exe, vpn) /\ WriteSize(vpn, exe.initDataAddr, InitDataEnd(exe)) > 0
    \/ LoadsBss(exe, vpn) /\ WriteSize(vpn, UninitDataStart(exe), UninitDataEnd(exe)) > 0

(* The demand load of page vpn of the running process into frame ppn. *)
LoadSegments(v, vpn, ppn) ==
    LET cur == v.currentThread
    IN  IF ~(UserExe.codeSize > 0) THEN VMAbort(v)
        ELSE [v EXCEPT !.mainMemory[ppn] =
                           IF WritesFrame(UserExe, vpn) THEN ExeImage(vpn) ELSE @,
                       !.pageTable[cur][vpn].readOnly =
                           ReadOnlyOnceLoaded(UserExe, vpn, @)]

(* GetTranslationEntry of Entrega4 without the store of the new frame into *)
(* the entry of a page that comes back from swap.                          *)
GetTranslationEntryKeepsFrame(v, virtualPage) ==
    LET cur == v.currentThread
    IN  IF virtualPage >= NumPages(UserExe) THEN [v EXCEPT !.ret = -1]
        ELSE IF v.pageTable[cur][virtualPage].valid THEN [v EXCEPT !.ret = 0]
        ELSE With(MapPhysPage(v, virtualPage), LAMBDA v1 :
             With(v1.ret, LAMBDA physicalPage :
                 IF v1.fatal THEN v1
                 ELSE IF v.pageTable[cur][virtualPage].swap
                 THEN [PullSwap(v1, cur, virtualPage, physicalPage) EXCEPT
                          !.pageTable[cur][virtualPage].valid = TRUE,
                          !.ret = 0]
                 ELSE [LoadSegments(
                          [v1 EXCEPT !.pageTable[cur][virtualPage].physicalPage = physicalPage,
                                     !.pageTable[cur][virtualPage].valid = TRUE],
                          virtualPage, physicalPage)
                       EXCEPT !.ret = 0]))

(* AddressSpace::GetTranslationEntry of Entrega4, for the running space.   *)
(* v.ret is -1 for nullptr.                                                *)
GetTranslationEntryE4(v, virtualPage) ==
    LET cur == v.currentThread
    IN  IF virtualPage >= NumPages(UserExe) THEN [v EXCEPT !.ret = -1]
        ELSE IF v.pageTable[cur][virtualPage].valid THEN [v EXCEPT !.ret = 0]
        ELSE With(MapPhysPage(v, virtualPage), LAMBDA v1 :
             With(v1.ret, LAMBDA physicalPage :
                 IF v1.fatal THEN v1
                 ELSE IF v.pageTable[cur][virtualPage].swap
                 THEN [PullSwap(v1, cur, virtualPage, physicalPage) EXCEPT
                          !.pageTable[cur][virtualPage].physicalPage = physicalPage,
                          !.pageTable[cur][virtualPage].valid = TRUE,
                          !.ret = 0]
                 ELSE [LoadSegments(
                          [v1 EXCEPT !.pageTable[cur][virtualPage].physicalPage = physicalPage,
                                     !.pageTable[cur][virtualPage].valid = TRUE],
                          virtualPage, physicalPage)
                       EXCEPT !.ret = 0]))

(* AddressSpace::GetTranslationEntry of Trunk, for the running space. *)
GetTranslationEntry(v, virtualPage) ==
    LET cur == v.currentThread
        entry == v.pageTable[cur][virtualPage]
    IN  IF virtualPage >= NumPages(UserExe) THEN [v EXCEPT !.ret = -1]
        ELSE IF entry.swap
        THEN IF entry.valid THEN VMAbort(v)
             ELSE With(FindPhysPage(v), LAMBDA v1 :
                  With(v1.ret, LAMBDA physicalPage :
                      IF v1.fatal THEN v1
                      ELSE [RegisterPage(
                               [PullSwap(v1, cur, virtualPage, physicalPage) EXCEPT
                                   !.pageTable[cur][virtualPage].physicalPage = physicalPage,
                                   !.pageTable[cur][virtualPage].valid = TRUE,
                                   !.pageTable[cur][virtualPage].swap = FALSE],
                               virtualPage, physicalPage)
                            EXCEPT !.ret = 0]))
        ELSE IF ~entry.valid
        THEN With(FindPhysPage([v EXCEPT !.pageTable[cur][virtualPage].valid = TRUE]),
                  LAMBDA v1 :
             With(v1.ret, LAMBDA physicalPage :
                 IF v1.fatal THEN v1
                 ELSE [LoadSegments(
                          RegisterPage(
                              [v1 EXCEPT !.pageTable[cur][virtualPage].physicalPage =
                                             physicalPage],
                              virtualPage, physicalPage),
                          virtualPage, physicalPage)
                       EXCEPT !.ret = 0]))
        ELSE [v EXCEPT !.ret = 0]

(* The handler of PAGE_FAULT_EXCEPTION: the translation of the space, a    *)
(* slot from EvictTlb, the entry copied into the slot.                     *)
PageFaultHandler(v, vpn) ==
    With(IF v.build = "EvictPage" THEN GetTranslationEntry(v, vpn)
         ELSE GetTranslationEntryE4(v, vpn),
         LAMBDA v1 :
        IF v1.fatal THEN v1
        ELSE IF v1.ret = -1 THEN VMAbort(v1)
        ELSE With(EvictTlb(v1), LAMBDA v2 :
             With(v2.pageTable[v.currentThread][vpn], LAMBDA entry :
                 [v2 EXCEPT !.tlb[v2.ret] =
                     [virtualPage |-> vpn, physicalPage |-> entry.physicalPage,
                      valid |-> entry.valid, use |-> entry.use,
                      dirty |-> entry.dirty, readOnly |-> entry.readOnly,
                      swap |-> IF v.build = "EvictPage" THEN entry.swap ELSE FALSE]])))

(* MMU::Translate on a TLB hit in slot i: a store to a read-only page      *)
(* raises READ_ONLY_EXCEPTION, which DefaultHandler answers by stopping    *)
(* the kernel; otherwise the use bit, and for a store the dirty bit and    *)
(* the bytes.                                                              *)
Translate(v, i, writing, word) ==
    LET e == v.tlb[i]
    IN  IF writing /\ e.readOnly THEN VMAbort(v)
        ELSE [v EXCEPT !.tlb[i].use = TRUE,
                       !.tlb[i].dirty = IF writing THEN TRUE ELSE @,
                       !.mainMemory[e.physicalPage] = IF writing THEN word ELSE @]

(* Thread::Exit of the running process and Scheduler::Run of next: the     *)
(* frames are released, the space saved, next restored, the old thread     *)
(* with its space and swap file deleted.  With no other process the        *)
(* machine goes idle with the space left as it is.                         *)
ExitTo(v, next) ==
    LET cur == v.currentThread IN
    With(IF v.build = "EvictPage" THEN RemoveCurrentThread(v)
         ELSE FreeAll(v, cur),
         LAMBDA v1 :
        IF next = NULL
        THEN [v1 EXCEPT !.currentThread = NULL, !.alive = @ \ {cur}]
        ELSE With(SaveState(v1), LAMBDA v2 :
             With(RestoreState([v2 EXCEPT !.currentThread = next]), LAMBDA v3 :
                 [v3 EXCEPT !.alive = @ \ {cur},
                            !.pageTable[cur] = [p \in Pages |-> NoEntry],
                            !.swapFile[cur] = [p \in Pages |-> 0],
                            !.tlbVictim[cur] = 0])))

(* Scheduler::Run from the running process to next. *)
SwitchTo(v, next) == RestoreState([SaveState(v) EXCEPT !.currentThread = next])

(* The kernel threads stand still while user programs run. *)
KernelAtRest ==
    /\ Boot
    /\ bitmap = {}
    /\ priority = [t \in Threads |-> DEFAULT_PRIORITY]
    /\ prioInherit = [l \in Locks |-> FALSE]
    /\ mustJoin = [t \in Threads |-> FALSE]
    /\ free = [t \in Threads |-> FALSE]
    /\ budget = [t \in Threads |-> 0]
    /\ todo = [t \in Threads |-> <<>>]

KernelIdle ==
    UNCHANGED <<currentThread, status, priority, started, deleted, queue, bitmap,
                threadToBeDestroyed, value, waiters, holder, savedPrio,
                prioInherit, buffer, condQueue, condBitmap, result, mustJoin,
                hasJoined, fatal, idle, todo, free, budget, out, hist>>

(* Bookkeeping for the properties: the last operation, what each page held *)
(* when it lost its frame, and how its dirty bit was recorded then.        *)
NoVmOp == [op |-> "none", thr |-> NULL, vpn |-> 0, refault |-> "none", expect |-> 0]

(* Two processes after Exec, the first running: the spaces just built,     *)
(* every frame free, the TLB empty, no swap sector written.                *)
InitVM ==
    /\ KernelAtRest
    /\ fs = NULL
    /\ \E b \in Builds :
        vm = [build |-> b,
              currentThread |-> "T1",
              alive |-> Procs,
              pageTable |-> [t \in Procs |-> [p \in Pages |-> NoEntry]],
              tlb |-> [i \in Slots |-> NoTlbEntry],
              tlbVictim |-> [t \in Procs |-> 0],
              mainMemory |-> [f \in Frames |-> 0],
              swapFile |-> [t \in Procs |-> [p \in Pages |-> 0]],
              physPages |-> {},
              coreMap |-> [f \in Frames |-> NoOwner],
              coreMapList |-> <<>>,
              swapVictim |-> 0,
              fatal |-> FALSE,
              ret |-> 0,
              flag |-> FALSE,
              writes |-> 0,
              modified |-> {},
              evictedBytes |-> [t \in Procs |-> [p \in Pages |-> 0]],
              evictedHow |-> [t \in Procs |-> [p \in Pages |-> "none"]],
              g |-> NoVmOp]

VmLive == ~vm.fatal /\ vm.currentThread # NULL

TlbHit(v, vpn) == {i \in Slots : v.tlb[i].valid /\ v.tlb[i].virtualPage = vpn}

(* The end of a handler: the locals are dropped.  An invalid TLB entry is  *)
(* never read but for its valid bit, so it is kept in one form.            *)
Settle(w) ==
    [w EXCEPT !.ret = 0, !.flag = FALSE,
              !.tlb = [i \in Slots |-> IF @[i].valid THEN @[i] ELSE NoTlbEntry]]

(* A user instruction that reads or writes page vpn and finds it in the    *)
(* TLB.                                                                    *)
Access ==
    /\ VmLive
    /\ \E vpn \in WorkingSet(vm.currentThread), writing \in BOOLEAN :
        /\ TlbHit(vm, vpn) # {}
        /\ writing => vm.writes < MaxWrites
        /\ LET cur == vm.currentThread
               i == CHOOSE k \in TlbHit(vm, vpn) : \A j \in TlbHit(vm, vpn) : k <= j
               word == vm.writes + 1
           IN  vm' = With(Translate(vm, i, writing, word), LAMBDA w :
                     With(writing /\ ~w.fatal, LAMBDA stored :
                         [Settle(w) EXCEPT
                         !.writes = IF stored THEN word ELSE @,
                         !.modified = IF stored THEN @ \cup {<<cur, vpn>>} ELSE @,
                         !.g = [op |-> IF writing THEN "Store" ELSE "Load",
                                thr |-> cur, vpn |-> vpn,
                                refault |-> "none", expect |-> 0]]))
    /\ UNCHANGED fs
    /\ KernelIdle

(* A user instruction on page vpn that misses the TLB: the page fault      *)
(* handler, from the exception to the return to user mode.                 *)
PageFault ==
    /\ VmLive
    /\ \E vpn \in WorkingSet(vm.currentThread) :
        /\ TlbHit(vm, vpn) = {}
        /\ vm' = With(PageFaultHandler(vm, vpn), LAMBDA w :
           LET cur == vm.currentThread
               gone(t, p) == vm.pageTable[t][p].valid /\ ~w.pageTable[t][p].valid
               how(t, p) ==
                   IF vm.pageTable[t][p].dirty THEN "table"
                   ELSE IF t = cur /\ \E i \in TlbHit(vm, p) : vm.tlb[i].dirty
                   THEN "tlb" ELSE "clean"
               back == ~vm.pageTable[cur][vpn].valid /\ w.pageTable[cur][vpn].valid
           IN  [Settle(w) EXCEPT
                         !.evictedBytes =
                             [t \in Procs |-> [p \in Pages |->
                                 IF gone(t, p)
                                 THEN vm.mainMemory[vm.pageTable[t][p].physicalPage]
                                 ELSE IF t = cur /\ p = vpn /\ back THEN 0
                                 ELSE @[t][p]]],
                         !.evictedHow =
                             [t \in Procs |-> [p \in Pages |->
                                 IF gone(t, p) THEN how(t, p)
                                 ELSE IF t = cur /\ p = vpn /\ back THEN "none"
                                 ELSE @[t][p]]],
                         !.g = [op |-> "PageFault", thr |-> cur, vpn |-> vpn,
                                refault |-> IF back THEN vm.evictedHow[cur][vpn]
                                            ELSE "none",
                                expect |-> IF back THEN vm.evictedBytes[cur][vpn]
                                           ELSE 0]])
    /\ UNCHANGED fs
    /\ KernelIdle

(* The timer: the running process yields to another one. *)
ContextSwitch ==
    /\ VmLive
    /\ \E next \in vm.alive \ {vm.currentThread} :
        vm' = [Settle(SwitchTo(vm, next)) EXCEPT
                  !.g = [NoVmOp EXCEPT !.op = "Run", !.thr = next]]
    /\ UNCHANGED fs
    /\ KernelIdle

(* The Exit system call of the running process. *)
Exit ==
    /\ VmLive
    /\ \E next \in (vm.alive \ {vm.currentThread}) \cup {NULL} :
        /\ (next = NULL) <=> (vm.alive = {vm.currentThread})
        /\ LET cur == vm.currentThread
           IN  vm' = [Settle(ExitTo(vm, next)) EXCEPT
                         !.modified = {x \in @ : x[1] # cur},
                         !.evictedBytes[cur] = [p \in Pages |-> 0],
                         !.evictedHow[cur] = [p \in Pages |-> "none"],
                         !.g = [NoVmOp EXCEPT !.op = "Exit", !.thr = cur]]
    /\ UNCHANGED fs
    /\ KernelIdle

NextVM == Access \/ PageFault \/ ContextSwitch \/ Exit

SpecVM == InitVM /\ [][NextVM]_vars

(* The (process, page) pairs the core map records for frame f: the entry   *)
(* of a frame in use in the array builds, the entries with a thread in     *)
(* the list build.                                                         *)
Recorded(f) ==
    IF vm.build = "EvictPage"
    THEN {<<vm.coreMapList[k].thread, vm.coreMapList[k].vpn>> :
              k \in {j \in DOMAIN vm.coreMapList :
                        /\ vm.coreMapList[j].ppn = f
                        /\ vm.coreMapList[j].thread # NULL}}
    ELSE IF f \in vm.physPages
    THEN {<<vm.coreMap[f].tid, vm.coreMap[f].vpn>>}
    ELSE {}

SwappedOut(t, p) ==
    /\ t \in vm'.alive
    /\ vm.pageTable[t][p].valid
    /\ ~vm'.pageTable[t][p].valid
(* The page was dirty, in its page-table entry or in a TLB entry. *)
WasDirty(t, p) ==
    \/ vm.pageTable[t][p].dirty
    \/ t = vm.currentThread /\ \E i \in TlbHit(vm, p) : vm.tlb[i].dirty
(* The step set the swapped-out flag or changed the swap copy. *)
TouchedSwap(t, p) ==
    \/ ~vm.pageTable[t][p].swap /\ vm'.pageTable[t][p].swap
    \/ vm'.swapFile[t][p] # vm.swapFile[t][p]
(* After the step the page is flagged and its swap copy holds its bytes. *)
InSwap(t, p) ==
    /\ vm'.pageTable[t][p].swap
    /\ vm'.swapFile[t][p] = vm.mainMemory[vm.pageTable[t][p].physicalPage]

----------------------------------------------------------------------------
(* The demand load of one page, for executables of every shape: which      *)
(* pages GetTranslationEntry leaves read-only.                             *)

MaxSegmentPages == 2   \* whole pages in a segment

SegmentSizes ==
    {0, 1, PAGE_SIZE \div 2}
        \cup {k * PAGE_SIZE : k \in 1 .. MaxSegmentPages}
        \cup {k * PAGE_SIZE + 1 : k \in 1 .. MaxSegmentPages}

(* A space just built and one of its pages, not yet loaded. *)
InitLoad ==
    /\ KernelAtRest
    /\ fs = NULL
    /\ \E code \in SegmentSizes \ {0}, initData \in SegmentSizes,
          uninitData \in SegmentSizes :
          \E vpn \in 0 .. (NumPages(Exe(code, initData, uninitData)) - 1) :
              vm = [exe |-> Exe(code, initData, uninitData), vpn |-> vpn,
                    loaded |-> FALSE, readOnly |-> FALSE]

(* The first fault on the page: the branch of GetTranslationEntry for a    *)
(* page that is neither valid nor in swap.                                 *)
DemandLoad ==
    /\ ~vm.loaded
    /\ vm' = [vm EXCEPT !.loaded = TRUE,
                        !.readOnly = ReadOnlyOnceLoaded(vm.exe, vm.vpn, vm.readOnly)]
    /\ UNCHANGED fs
    /\ KernelIdle

NextLoad == DemandLoad

SpecLoad == InitLoad /\ [][NextLoad]_vars

(* The code segment covers the whole page. *)
CodeCovers(exe, vpn) ==
    exe.codeAddr <= VirtualStart(vpn) /\ VirtualEnd(vpn) <= CodeEnd(exe)
(* Some byte of [from, to) lies in the page. *)
HasByteOf(vpn, from, to) ==
    from < to /\ from < VirtualEnd(vpn) /\ VirtualStart(vpn) < to

(* C17: a demand-loaded page is read-only if and only if the code segment  *)
(* covers all of it, and a page with a byte of initialized data or of bss  *)
(* is never read-only.                                                     *)
C17_ReadOnlyIffCodeCovers ==
    vm.loaded
        => /\ vm.readOnly <=> CodeCovers(vm.exe, vm.vpn)
           /\ (\/ HasByteOf(vm.vpn, vm.exe.initDataAddr, InitDataEnd(vm.exe))
               \/ HasByteOf(vm.vpn, UninitDataStart(vm.exe), UninitDataEnd(vm.exe)))
                  => ~vm.readOnly

(***************************************************************************)
(* File system (Trunk/code/filesys): file headers with direct, single      *)
(* indirect and double indirect sectors, the bitmap of free sectors and    *)
(* the root directory.  The state of a FileHeader call is one record `a`:  *)
(* the bitmap in memory (freeMap, the set of marked sectors), the header   *)
(* (raw), the tables that WriteSector put on disk (disk), the return       *)
(* value (ret) and the locals that the loops of a routine share.           *)
(***************************************************************************)

SECTOR_SIZE == 2
NUM_SECTORS == 18
NUM_DIRECT == 2
NUM_DATAPTR == 2
NUM_DATAPTRPTR == NUM_DATAPTR * NUM_DATAPTR
MAX_FILE_SIZE == (NUM_DIRECT + NUM_DATAPTR + NUM_DATAPTRPTR) * SECTOR_SIZE

Sectors == 0 .. NUM_SECTORS - 1
(* A word that no statement has written yet. *)
Junk == -2
NoTable == [i \in 1 .. NUM_DATAPTR |-> Junk]
(* A FileHeader after `new FileHeader`: no field is initialized. *)
FreshHeader ==
    [numBytes |-> Junk, numSectors |-> Junk,
     dataSectors |-> [i \in 0 .. NUM_DIRECT - 1 |-> Junk],
     dataPtr |-> Junk, dataPtrPtr |-> Junk, directory |-> FALSE]

(* Bitmap::CountClear *)
CountClear(a) == Cardinality(Sectors \ a.freeMap)

(* Bitmap::Find: mark the lowest clear bit and return it, -1 if none. *)
BitmapFind(a) ==
    LET clear == Sectors \ a.freeMap IN
    IF clear = {} THEN [a EXCEPT !.found = -1]
    ELSE LET s == CHOOSE x \in clear : \A y \in clear : x <= y IN
         [a EXCEPT !.freeMap = @ \cup {s}, !.found = s]

(* SynchDisk::WriteSector of a table of sector numbers, as later reads     *)
(* through the cache see it.  Writing to a sector number that is not one   *)
(* of the disk is undefined.                                               *)
WriteSector(a, sector, table) ==
    IF sector \in Sectors THEN [a EXCEPT !.disk[sector] = table]
    ELSE [a EXCEPT !.undefined = TRUE]

(* FileHeader::ComputeNumberOfIndirectSectors *)
ComputeNumberOfIndirectSectors(sectorsUsedForData) ==
    LET hasDataPtr == sectorsUsedForData > NUM_DIRECT
        sectorsUsedForPointersToData ==
            DivRoundUp(sectorsUsedForData, NUM_DATAPTR)
        hasDataPtrPtr == sectorsUsedForPointersToData > 1
        sectorsUsedForPointersToPointers == 1
    IN  IF ~hasDataPtr THEN 0
        ELSE IF ~hasDataPtrPtr THEN sectorsUsedForPointersToData
        ELSE sectorsUsedForPointersToData + sectorsUsedForPointersToPointers

(* FileHeader::ComputeNumberOfDataSectors *)
ComputeNumberOfDataSectors(numBytes) == DivRoundUp(numBytes, SECTOR_SIZE)

(* FileHeader::ComputeTotalNumberOfSectors *)
ComputeTotalNumberOfSectors(numBytes) ==
    LET sectorsUsedForData == ComputeNumberOfDataSectors(numBytes)
    IN  sectorsUsedForData + ComputeNumberOfIndirectSectors(sectorsUsedForData)

(* Allocate, "Reserve indirect blocks first": the loop over i.  An index   *)
(* past the end of dataPtrList is undefined.                               *)
RECURSIVE ReserveIndirect(_, _, _)
ReserveIndirect(a, i, numIndirect) ==
    IF i >= numIndirect \/ a.undefined THEN a
    ELSE LET b == BitmapFind(a) IN
         ReserveIndirect(
             IF i = 0 THEN [b EXCEPT !.raw.dataPtr = b.found]
             ELSE IF i = 1
             THEN [b EXCEPT !.raw.dataPtrPtr = b.found, !.dataPtrList = NoTable]
             ELSE IF i - 2 < NUM_DATAPTR
             THEN [b EXCEPT !.dataPtrList[i - 1] = b.found]
             ELSE [b EXCEPT !.undefined = TRUE],
             i + 1, numIndirect)

(* Allocate, "Reserve data blocks": the direct sectors. *)
RECURSIVE ReserveDirect(_, _)
ReserveDirect(a, i) ==
    IF a.remaining > 0 /\ i < NUM_DIRECT
    THEN LET b == BitmapFind(a) IN
         ReserveDirect([b EXCEPT !.raw.dataSectors[i] = b.found,
                                 !.remaining = @ - 1], i + 1)
    ELSE a

(* Allocate: the sectors of the single indirect table. *)
RECURSIVE ReserveSingle(_, _)
ReserveSingle(a, i) ==
    IF a.remaining > 0 /\ i < NUM_DATAPTR
    THEN LET b == BitmapFind(a) IN
         ReserveSingle([b EXCEPT !.dataPtrBuf[i + 1] = b.found,
                                 !.remaining = @ - 1], i + 1)
    ELSE a

(* dataPtrList[sector] as Allocate and Deallocate read it: undefined past  *)
(* the end of the list.                                                    *)
ListEntry(a, sector) ==
    IF sector < NUM_DATAPTR /\ a.dataPtrList # <<>>
    THEN a.dataPtrList[sector + 1] ELSE Junk

(* Allocate: the sectors of the double indirect tables, one buffer reused  *)
(* for every table.                                                        *)
RECURSIVE ReserveDouble(_, _, _)
ReserveDouble(a, sector, c) ==
    IF a.undefined THEN a
    ELSE IF a.remaining > 0
    THEN With(BitmapFind(a), LAMBDA b :
         With([b EXCEPT !.dataPtrBuf[c + 1] = b.found, !.remaining = @ - 1],
              LAMBDA w :
         IF c + 1 = NUM_DATAPTR
         THEN ReserveDouble(WriteSector(w, ListEntry(w, sector), w.dataPtrBuf),
                            sector + 1, 0)
         ELSE ReserveDouble(w, sector, c + 1)))
    ELSE IF c > 0 THEN WriteSector(a, ListEntry(a, sector), a.dataPtrBuf)
    ELSE a

(* The locals of a routine go out of scope when it returns. *)
Return(a, success) ==
    [a EXCEPT !.ret = success, !.found = -1, !.remaining = 0,
              !.dataPtrList = <<>>, !.dataPtrBuf = <<>>]

(* FileHeader::Allocate *)
Allocate(a, fileSize, directory) ==
    IF fileSize > MAX_FILE_SIZE THEN Return(a, FALSE)
    ELSE
    LET numSectors == DivRoundUp(fileSize, SECTOR_SIZE)
        numIndirect == ComputeNumberOfIndirectSectors(numSectors)
    IN
    With([a EXCEPT !.raw.numBytes = fileSize, !.raw.numSectors = numSectors],
         LAMBDA a1 :
    IF CountClear(a1) < numSectors + numIndirect THEN Return(a1, FALSE)
    ELSE
    With(ReserveIndirect([a1 EXCEPT !.dataPtrList = <<>>], 0, numIndirect),
         LAMBDA a2 :
    With(IF a2.dataPtrList # <<>> /\ ~a2.undefined
         THEN WriteSector(a2, a2.raw.dataPtrPtr, a2.dataPtrList)
         ELSE a2,
         LAMBDA a3 :
    With(ReserveDirect([a3 EXCEPT !.remaining = numSectors], 0),
         LAMBDA a4 :
    With(IF a4.remaining > 0
         THEN With(ReserveSingle([a4 EXCEPT !.dataPtrBuf = NoTable], 0),
                   LAMBDA b : WriteSector(b, b.raw.dataPtr, b.dataPtrBuf))
         ELSE a4,
         LAMBDA a5 :
    With(IF a5.remaining > 0
         THEN ReserveDouble([a5 EXCEPT !.dataPtrBuf = NoTable], 0, 0)
         ELSE a5,
         LAMBDA a6 :
    IF a6.undefined THEN a6
    ELSE Return([a6 EXCEPT !.raw.directory = directory], TRUE)))))))

(* FileHeader::Allocate on its own: a fresh header, a bitmap whose marked  *)
(* sectors are the lowest ones (sectors 0 and 1 hold the headers of the    *)
(* bitmap and of the root directory), and every size up to one byte past   *)
(* MAX_FILE_SIZE.                                                          *)
NoCall ==
    [freeMap |-> {}, raw |-> FreshHeader, disk |-> [s \in Sectors |-> NoTable],
     ret |-> FALSE, fatal |-> FALSE, undefined |-> FALSE, found |-> -1,
     remaining |-> 0, dataPtrList |-> <<>>, dataPtrBuf |-> <<>>]

InitAllocate ==
    /\ KernelAtRest
    /\ vm = NULL
    /\ \E marked \in 2 .. NUM_SECTORS, fileSize \in 0 .. MAX_FILE_SIZE + 1 :
           fs = [a |-> [NoCall EXCEPT !.freeMap = 0 .. marked - 1],
                 fileSize |-> fileSize, called |-> FALSE,
                 clear |-> NUM_SECTORS - marked]

AllocateCall ==
    /\ ~fs.called
    /\ \E directory \in BOOLEAN :
           fs' = [fs EXCEPT !.a = Allocate(fs.a, fs.fileSize, directory),
                            !.called = TRUE]
    /\ UNCHANGED vm
    /\ KernelIdle

NextAllocate == AllocateCall

SpecAllocate == InitAllocate /\ [][NextAllocate]_vars

(* The tables that numSectors data sectors need: none up to NUM_DIRECT,    *)
(* the single indirect table up to NUM_DATAPTR more, and beyond that the   *)
(* double indirect table and one table for every NUM_DATAPTR sectors.      *)
IndirectSectorsNeeded(numSectors) ==
    IF numSectors <= NUM_DIRECT THEN 0
    ELSE IF numSectors <= NUM_DIRECT + NUM_DATAPTR THEN 1
    ELSE 1 + 1 + DivRoundUp(numSectors - NUM_DIRECT - NUM_DATAPTR, NUM_DATAPTR)

(* C19: the number of indirect sectors computed for numSectors data        *)
(* sectors is 0 up to NUM_DIRECT, 1 while only the single indirect table   *)
(* is needed and 1 + 1 + ceil((numSectors - NUM_DIRECT - NUM_DATAPTR) /    *)
(* NUM_DATAPTR) beyond, and Allocate fails when fewer sectors are free     *)
(* than numSectors plus that number.                                       *)
C19_IndirectSectorCount ==
    fs.called /\ fs.fileSize <= MAX_FILE_SIZE
        => LET numSectors == DivRoundUp(fs.fileSize, SECTOR_SIZE) IN
           /\ ComputeNumberOfIndirectSectors(numSectors)
                  = IndirectSectorsNeeded(numSectors)
           /\ fs.a.ret
                  => Cardinality(fs.a.freeMap) - (NUM_SECTORS - fs.clear)
                         = numSectors + IndirectSectorsNeeded(numSectors)
           /\ fs.clear < numSectors + IndirectSectorsNeeded(numSectors)
                  => ~fs.a.ret

(* An ASSERT that fails stops the kernel. *)
FsAbort(a) == [a EXCEPT !.fatal = TRUE]
Stopped(a) == a.fatal \/ a.undefined

(* The value a read of a word delivers: `junk` for a word never written.   *)
Word(x, junk) == IF x = Junk THEN junk ELSE x

(* SynchDisk::ReadSector of a table: the last table written to the sector, *)
(* or words never written.  Reading a sector number that is not one of the *)
(* disk is undefined.                                                      *)
ReadSector(a, sector) == IF sector \in Sectors THEN a.disk[sector] ELSE NoTable
Reading(a, sector) ==
    IF sector \in Sectors THEN a ELSE [a EXCEPT !.undefined = TRUE]

(* AllocateOneMoreSector: a sector under the single indirect table. *)
OneMoreSingle(b, sector, id, junk) ==
    With(IF id = 0
         THEN With(BitmapFind(b), LAMBDA f : [f EXCEPT !.raw.dataPtr = f.found])
         ELSE b,
         LAMBDA b1 :
    LET dataPtr == Word(b1.raw.dataPtr, junk)
        dataPtrBuf == [ReadSector(b1, dataPtr) EXCEPT ![id + 1] = sector]
    IN  WriteSector([Reading(b1, dataPtr) EXCEPT !.raw.numSectors = @ + 1],
                    dataPtr, dataPtrBuf))

(* AllocateOneMoreSector: a sector under a table of the double indirect    *)
(* sector.                                                                 *)
OneMoreDouble(b, sector, id, junk) ==
    LET upperId == id \div NUM_DATAPTR
        lowerId == id % NUM_DATAPTR
    IN
    With(IF id = 0
         THEN With(BitmapFind(b), LAMBDA f : [f EXCEPT !.raw.dataPtrPtr = f.found])
         ELSE b,
         LAMBDA b1 :
    With(Word(b1.raw.dataPtrPtr, junk), LAMBDA dataPtrPtr :
    With(IF lowerId = 0
         THEN With(BitmapFind(Reading(b1, dataPtrPtr)), LAMBDA f :
                   WriteSector(f, dataPtrPtr,
                               [ReadSector(f, dataPtrPtr)
                                   EXCEPT ![upperId + 1] = f.found]))
         ELSE Reading(b1, dataPtrPtr),
         LAMBDA b3 :
    LET dataPtr == Word(ReadSector(b3, dataPtrPtr)[upperId + 1], junk)
        dataPtrBuf == [ReadSector(b3, dataPtr) EXCEPT ![lowerId + 1] = sector]
    IN  [WriteSector(Reading(b3, dataPtr), dataPtr, dataPtrBuf)
            EXCEPT !.raw.numSectors = @ + 1])))

(* FileHeader::AllocateOneMoreSector *)
AllocateOneMoreSector(a, junk) ==
    LET numSectors == a.raw.numSectors IN
    IF numSectors < NUM_DIRECT
    THEN With(BitmapFind(a), LAMBDA b :
              [b EXCEPT !.raw.dataSectors[numSectors] = b.found,
                        !.raw.numSectors = @ + 1])
    ELSE IF numSectors < NUM_DIRECT + NUM_DATAPTR
    THEN With(BitmapFind(a), LAMBDA b :
              OneMoreSingle(b, b.found, numSectors - NUM_DIRECT, junk))
    ELSE IF numSectors < NUM_DATAPTR + NUM_DATAPTR + NUM_DATAPTRPTR
    THEN IF (numSectors - NUM_DIRECT - NUM_DATAPTR) \div NUM_DATAPTR
                >= NUM_DATAPTR
         THEN [a EXCEPT !.undefined = TRUE]
         ELSE With(BitmapFind(a), LAMBDA b :
                   OneMoreDouble(b, b.found,
                                 numSectors - NUM_DIRECT - NUM_DATAPTR, junk))
    ELSE FsAbort(a)

(* Extend: `while (raw.numSectors < sectorsUsedForData)` *)
RECURSIVE ExtendLoop(_, _, _)
ExtendLoop(a, sectorsUsedForData, junk) ==
    IF Stopped(a) \/ a.raw.numSectors >= sectorsUsedForData THEN a
    ELSE ExtendLoop(AllocateOneMoreSector(a, junk), sectorsUsedForData, junk)

(* FileHeader::Extend *)
Extend(a, newSize, junk) ==
    IF newSize <= a.raw.numBytes THEN Return(a, TRUE)
    ELSE IF newSize > MAX_FILE_SIZE THEN Return(a, FALSE)
    ELSE
    LET oldRealNumberOfSectors == ComputeTotalNumberOfSectors(a.raw.numBytes)
        newRealNumberOfSectors == ComputeTotalNumberOfSectors(newSize)
        neededFreeSectors == newRealNumberOfSectors - oldRealNumberOfSectors
    IN  IF CountClear(a) < neededFreeSectors THEN Return(a, FALSE)
        ELSE With(ExtendLoop(a, DivRoundUp(newSize, SECTOR_SIZE), junk),
                  LAMBDA b :
                  IF Stopped(b) THEN b
                  ELSE Return([b EXCEPT !.raw.numBytes = newSize], TRUE))

(* Deallocate: `ASSERT(freeMap->Test(s)); freeMap->Clear(s);`, where Test   *)
(* itself asserts that s is a bit of the map.                               *)
TestAndClear(a, s) ==
    IF s \in Sectors /\ s \in a.freeMap
    THEN [a EXCEPT !.freeMap = @ \ {s}] ELSE FsAbort(a)

(* Deallocate, "Deallocate indirect blocks first": the loop over i. *)
RECURSIVE ClearIndirect(_, _, _, _)
ClearIndirect(a, i, numIndirect, junk) ==
    IF i >= numIndirect \/ Stopped(a) THEN a
    ELSE ClearIndirect(
             IF i = 0 THEN TestAndClear(a, Word(a.raw.dataPtr, junk))
             ELSE IF i = 1
             THEN With(TestAndClear(a, Word(a.raw.dataPtrPtr, junk)), LAMBDA b :
                       IF Stopped(b) THEN b
                       ELSE [b EXCEPT !.dataPtrList =
                                ReadSector(b, Word(a.raw.dataPtrPtr, junk))])
             ELSE IF i - 2 < NUM_DATAPTR
             THEN TestAndClear(a, Word(a.dataPtrList[i - 1], junk))
             ELSE [a EXCEPT !.undefined = TRUE],
             i + 1, numIndirect, junk)

(* Deallocate, "Deallocate data blocks": the direct sectors. *)
RECURSIVE ClearDirect(_, _, _)
ClearDirect(a, i, junk) ==
    IF ~Stopped(a) /\ a.remaining > 0 /\ i < NUM_DIRECT
    THEN ClearDirect([TestAndClear(a, Word(a.raw.dataSectors[i], junk))
                         EXCEPT !.remaining = @ - 1], i + 1, junk)
    ELSE a

(* Deallocate: the sectors of the single indirect table. *)
RECURSIVE ClearSingle(_, _, _)
ClearSingle(a, i, junk) ==
    IF ~Stopped(a) /\ a.remaining > 0 /\ i < NUM_DATAPTR
    THEN ClearSingle([TestAndClear(a, Word(a.dataPtrBuf[i + 1], junk))
                         EXCEPT !.remaining = @ - 1], i + 1, junk)
    ELSE a

(* Deallocate: the sectors of the double indirect tables.  The next table  *)
(* is read as soon as one is finished, whether or not sectors remain.      *)
RECURSIVE ClearDouble(_, _, _, _)
ClearDouble(a, sector, c, junk) ==
    IF Stopped(a) \/ a.remaining = 0 THEN a
    ELSE With([TestAndClear(a, Word(a.dataPtrBuf[c + 1], junk))
                  EXCEPT !.remaining = @ - 1],
              LAMBDA b :
              IF Stopped(b) THEN b
              ELSE IF c + 1 = NUM_DATAPTR
              THEN LET next == Word(ListEntry(b, sector + 1), junk) IN
                   ClearDouble([Reading(b, next)
                                   EXCEPT !.dataPtrBuf = ReadSector(b, next)],
                               sector + 1, 0, junk)
              ELSE ClearDouble(b, sector, c + 1, junk))

(* FileHeader::Deallocate *)
Deallocate(a, junk) ==
    LET numSectors == a.raw.numSectors
        numIndirect == ComputeNumberOfIndirectSectors(numSectors)
    IN
    With(ClearIndirect([a EXCEPT !.dataPtrList = <<>>], 0, numIndirect, junk),
         LAMBDA a1 :
    With(ClearDirect([a1 EXCEPT !.remaining = numSectors], 0, junk),
         LAMBDA a2 :
    With(IF ~Stopped(a2) /\ a2.remaining > 0
         THEN LET dataPtr == Word(a2.raw.dataPtr, junk) IN
              ClearSingle([Reading(a2, dataPtr)
                              EXCEPT !.dataPtrBuf = ReadSector(a2, dataPtr)],
                          0, junk)
         ELSE a2,
         LAMBDA a3 :
    With(IF ~Stopped(a3) /\ a3.remaining > 0
         THEN LET first == Word(ListEntry(a3, 0), junk) IN
              ClearDouble([Reading(a3, first)
                              EXCEPT !.dataPtrBuf = ReadSector(a3, first)],
                          0, 0, junk)
         ELSE a3,
         LAMBDA a4 :
    IF Stopped(a4) THEN a4 ELSE Return(a4, TRUE)))))

(***************************************************************************)
(* The file system on a formatted disk: the bitmap file and the root       *)
(* directory as they are on disk, the header sectors written so far and    *)
(* the tables of the indirect sectors.  No file is open, so Remove frees   *)
(* the sectors at once.                                                    *)
(***************************************************************************)
FREE_MAP_SECTOR == 0
DIRECTORY_SECTOR == 1
NUM_DIR_ENTRIES == 2
FREE_MAP_FILE_SIZE == DivRoundUp(NUM_SECTORS, BITS_IN_BYTE)
(* One byte for every entry of the directory. *)
DIRECTORY_FILE_SIZE == NUM_DIR_ENTRIES

MaxFsOps == 4
Names == {"a", "b"}
(* Sizes of no sector, of direct sectors only, with the single indirect    *)
(* table, with double indirect tables, and around the largest size.        *)
FileSizes ==
    {0, 1, NUM_DIRECT * SECTOR_SIZE + 1,
     (NUM_DIRECT + NUM_DATAPTR) * SECTOR_SIZE + 1,
     MAX_FILE_SIZE, MAX_FILE_SIZE + 1}
NoOp == [kind |-> "none", name |-> "", size |-> 0, freeMap |-> {},
         table |-> [n \in Names |-> -1]]

(* FileSystem::FileSystem(true): format the disk. *)
Format ==
    With(Allocate([NoCall EXCEPT !.freeMap = {FREE_MAP_SECTOR, DIRECTORY_SECTOR}],
                  FREE_MAP_FILE_SIZE, FALSE),
         LAMBDA mapH :
    With(Allocate([mapH EXCEPT !.raw = FreshHeader], DIRECTORY_FILE_SIZE, TRUE),
         LAMBDA dirH :
    [freeMap |-> dirH.freeMap,
     table |-> [n \in Names |-> -1],
     headers |-> [s \in Sectors |->
                     IF s = FREE_MAP_SECTOR THEN mapH.raw
                     ELSE IF s = DIRECTORY_SECTOR THEN dirH.raw
                     ELSE FreshHeader],
     disk |-> dirH.disk,
     fatal |-> ~mapH.ret \/ ~dirH.ret, undefined |-> FALSE,
     ret |-> FALSE, op |-> NoOp, ops |-> 0]))

(* A FileHeader call on the bitmap fetched from the bitmap file and on the *)
(* header `raw`.                                                           *)
Call(f, raw) ==
    [NoCall EXCEPT !.freeMap = f.freeMap, !.raw = raw, !.disk = f.disk]

(* Directory::Find *)
DirectoryFind(f, name) == f.table[name]
(* Directory::Add: false if the name is there or no entry is free. *)
DirectoryAdd(f, name, sector) ==
    IF f.table[name] # -1
       \/ Cardinality({n \in Names : f.table[n] # -1}) >= NUM_DIR_ENTRIES
    THEN [f EXCEPT !.ret = FALSE]
    ELSE [f EXCEPT !.table[name] = sector, !.ret = TRUE]
(* Directory::Remove *)
DirectoryRemove(f, name) == [f EXCEPT !.table[name] = -1]

(* The outcome of a call on the disk: what the operation wrote back. *)
Fail(f) == [f EXCEPT !.ret = FALSE]
Stop(f, a) == [f EXCEPT !.fatal = @ \/ a.fatal, !.undefined = @ \/ a.undefined]

(* FileSystem::Create in the root directory. *)
Create(f, name, initialSize) ==
    IF ~(initialSize < MAX_FILE_SIZE) THEN [f EXCEPT !.fatal = TRUE]
    ELSE IF DirectoryFind(f, name) # -1 THEN Fail(f)
    ELSE
    With(BitmapFind(Call(f, FreshHeader)), LAMBDA found :
    With(DirectoryAdd(f, name, found.found), LAMBDA added :
    IF found.found = -1 THEN Fail(f)
    ELSE IF ~added.ret THEN Fail(f)
    ELSE
    With(Allocate(found, initialSize, FALSE), LAMBDA h :
    IF Stopped(h) THEN Stop(f, h)
    ELSE IF ~h.ret THEN Fail(f)
    ELSE [added EXCEPT !.headers[found.found] = h.raw,
                       !.freeMap = h.freeMap,
                       !.disk = h.disk,
                       !.ret = TRUE])))

(* FileSystem::Remove of a file of the root directory that nobody has      *)
(* open.                                                                   *)
Remove(f, name, junk) ==
    LET sector == DirectoryFind(f, name) IN
    IF sector = -1 THEN Fail(f)
    ELSE IF f.headers[sector].directory THEN Fail(f)
    ELSE With(Deallocate(Call(f, f.headers[sector]), junk), LAMBDA d :
              IF Stopped(d) THEN Stop(f, d)
              ELSE [DirectoryRemove(f, name)
                       EXCEPT !.freeMap = d.freeMap \ {sector}, !.ret = TRUE])

(* OpenFile::WriteAt past the end of the file: the header grows and, if    *)
(* it could, goes back to its sector with the bitmap.                      *)
WriteAt(f, name, newSize, junk) ==
    LET sector == DirectoryFind(f, name) IN
    IF sector = -1 THEN Fail(f)
    ELSE With(Extend(Call(f, f.headers[sector]), newSize, junk), LAMBDA e :
              IF Stopped(e) THEN Stop(f, e)
              ELSE IF ~e.ret THEN Fail(f)
              ELSE [f EXCEPT !.headers[sector] = e.raw, !.freeMap = e.freeMap,
                             !.disk = e.disk, !.ret = TRUE])

FsLive == ~fs.fatal /\ ~fs.undefined /\ fs.ops < MaxFsOps
(* The operation that ran last, with the bitmap and the directory it found. *)
Before(kind, name, size) ==
    [kind |-> kind, name |-> name, size |-> size,
     freeMap |-> fs.freeMap, table |-> fs.table]
(* What a word never written may hold: zero as on a fresh disk, which is   *)
(* the number of a sector in use, the number of a free sector, or no       *)
(* sector number at all.                                                   *)
JunkWords == {FREE_MAP_SECTOR, NUM_SECTORS - 1, NUM_SECTORS}

InitFS ==
    /\ KernelAtRest
    /\ vm = NULL
    /\ fs = Format

CreateCall ==
    /\ FsLive
    /\ \E name \in Names, initialSize \in FileSizes :
           fs' = [Create(fs, name, initialSize)
                     EXCEPT !.op = Before("Create", name, initialSize),
                            !.ops = @ + 1]
    /\ UNCHANGED vm
    /\ KernelIdle

RemoveCall ==
    /\ FsLive
    /\ \E name \in Names, junk \in JunkWords :
           fs' = [Remove(fs, name, junk)
                     EXCEPT !.op = Before("Remove", name, 0), !.ops = @ + 1]
    /\ UNCHANGED vm
    /\ KernelIdle

WriteCall ==
    /\ FsLive
    /\ \E name \in Names, newSize \in FileSizes \ {MAX_FILE_SIZE + 1},
          junk \in JunkWords :
           fs' = [WriteAt(fs, name, newSize, junk)
                     EXCEPT !.op = Before("Write", name, newSize),
                            !.ops = @ + 1]
    /\ UNCHANGED vm
    /\ KernelIdle

NextFS == CreateCall \/ RemoveCall \/ WriteCall

SpecFS == InitFS /\ [][NextFS]_vars

(* The sectors a header leads to: the first numSectors data sectors along  *)
(* the direct, single indirect and double indirect path (ByteToSector),    *)
(* with the tables that hold them.                                         *)
DataSector(f, raw, i) ==
    IF i < NUM_DIRECT THEN raw.dataSectors[i]
    ELSE IF i < NUM_DIRECT + NUM_DATAPTR
    THEN ReadSector(f, raw.dataPtr)[i - NUM_DIRECT + 1]
    ELSE LET id == i - NUM_DIRECT - NUM_DATAPTR
             dataPtr == ReadSector(f, raw.dataPtrPtr)[(id \div NUM_DATAPTR) + 1]
         IN  ReadSector(f, dataPtr)[(id % NUM_DATAPTR) + 1]
TableSectors(f, raw) ==
    (IF raw.numSectors > NUM_DIRECT THEN {raw.dataPtr} ELSE {})
    \cup (IF raw.numSectors > NUM_DIRECT + NUM_DATAPTR
          THEN {raw.dataPtrPtr}
               \cup {ReadSector(f, raw.dataPtrPtr)[j] :
                        j \in 1 .. DivRoundUp(raw.numSectors - NUM_DIRECT
                                                  - NUM_DATAPTR, NUM_DATAPTR)}
          ELSE {})
FileSectors(f, raw) ==
    {DataSector(f, raw, i) : i \in 0 .. raw.numSectors - 1} \cup TableSectors(f, raw)
(* The sectors reachable from sector 0, from sector 1 and through the      *)
(* entries of the directory.                                               *)
Reachable(f) ==
    LET headerSectors == {FREE_MAP_SECTOR, DIRECTORY_SECTOR}
                             \cup {f.table[n] : n \in {m \in Names : f.table[m] # -1}}
    IN  headerSectors
        \cup UNION {FileSectors(f, f.headers[s]) : s \in headerSectors}

(* C18: after every completed operation of the file system the bitmap of   *)
(* free sectors marks exactly the sectors reachable from sector 0, from    *)
(* sector 1 and through the directory entries and the direct, single       *)
(* indirect and double indirect sectors of their headers.                  *)
C18_BitmapMarksReachable ==
    ~fs.fatal /\ ~fs.undefined => fs.freeMap = Reachable(fs)

(* Create finds the name absent, an entry of the directory free and a      *)
(* sector for the header.                                                  *)
CanAdd(op) ==
    /\ op.table[op.name] = -1
    /\ Cardinality({n \in Names : op.table[n] # -1}) < NUM_DIR_ENTRIES
    /\ Sectors \ op.freeMap # {}
(* The sectors clear when Create calls Allocate, the header sector taken. *)
ClearForData(op) == Cardinality(Sectors \ op.freeMap) - 1

(* C20: creating a file of MAX_FILE_SIZE bytes succeeds if and only if at  *)
(* least the data and indirect sectors it requires are free, and creating  *)
(* a file of MAX_FILE_SIZE + 1 bytes returns failure and leaves the bitmap *)
(* and the directory unchanged.                                            *)
C20_CreateAtMaxFileSize ==
    fs.op.kind = "Create"
        => LET numSectors == DivRoundUp(MAX_FILE_SIZE, SECTOR_SIZE)
               required == numSectors + IndirectSectorsNeeded(numSectors)
           IN  /\ fs.op.size = MAX_FILE_SIZE /\ CanAdd(fs.op)
                      => ((~fs.fatal /\ ~fs.undefined /\ fs.ret)
                             <=> ClearForData(fs.op) >= required)
               /\ fs.op.size = MAX_FILE_SIZE + 1
                      => /\ ~fs.fatal /\ ~fs.undefined /\ ~fs.ret
                         /\ fs.freeMap = fs.op.freeMap
                         /\ fs.table = fs.op.table

(***************************************************************************)
(* FileHeader::Extend on a header that Allocate filled: the bitmap starts  *)
(* with its lowest sectors marked, the file gets its first size and then   *)
(* grows (or not) up to MaxExtends times.                                  *)
(***************************************************************************)
MaxExtends == 2

InitExtend ==
    /\ KernelAtRest
    /\ vm = NULL
    /\ \E marked \in 2 .. NUM_SECTORS :
           fs = [a |-> [NoCall EXCEPT !.freeMap = 0 .. marked - 1],
                 base |-> 0 .. marked - 1,
                 before |-> NoCall, newSize |-> 0,
                 phase |-> "new", extends |-> 0]

(* The header of a new file: Allocate with the size of FileSystem::Create. *)
AllocateFirst ==
    /\ fs.phase = "new"
    /\ \E fileSize \in 0 .. MAX_FILE_SIZE - 1 :
           fs' = [fs EXCEPT !.a = Allocate(fs.a, fileSize, FALSE),
                            !.phase = "allocated"]
    /\ UNCHANGED vm
    /\ KernelIdle

(* Extend of the header of a file that exists. *)
ExtendCall ==
    /\ fs.phase \in {"allocated", "extended"}
    /\ fs.a.ret /\ ~Stopped(fs.a)
    /\ fs.extends < MaxExtends
    /\ \E newSize \in 0 .. MAX_FILE_SIZE + 1, junk \in JunkWords :
           fs' = [fs EXCEPT !.a = Extend(fs.a, newSize, junk),
                            !.before = fs.a, !.newSize = newSize,
                            !.phase = "extended", !.extends = @ + 1]
    /\ UNCHANGED vm
    /\ KernelIdle

(* Deallocate of the header of the file, as FileSystem::Remove calls it on *)
(* the bitmap it has fetched.                                              *)
DeallocateCall ==
    /\ fs.phase \in {"allocated", "extended"}
    /\ ~Stopped(fs.a)
    /\ fs.phase = "allocated" => fs.a.ret
    /\ \E junk \in JunkWords :
           fs' = [fs EXCEPT !.a = Deallocate(Call(fs.a, fs.a.raw), junk),
                            !.before = fs.a,
                            !.phase = "deallocated"]
    /\ UNCHANGED vm
    /\ KernelIdle

NextExtend == AllocateFirst \/ ExtendCall \/ DeallocateCall

SpecExtend == InitExtend /\ [][NextExtend]_vars

(* The calls of Bitmap::Find that AllocateOneMoreSector makes for the data *)
(* sector of index k: the sector itself, the single indirect table with    *)
(* the first sector under it, the double indirect table with the first     *)
(* sector under it and a table for every NUM_DATAPTR sectors.              *)
FindsForSector(k) ==
    IF k < NUM_DIRECT THEN 1
    ELSE IF k < NUM_DIRECT + NUM_DATAPTR
    THEN 1 + (IF k - NUM_DIRECT = 0 THEN 1 ELSE 0)
    ELSE 1 + (IF k - NUM_DIRECT - NUM_DATAPTR = 0 THEN 1 ELSE 0)
           + (IF (k - NUM_DIRECT - NUM_DATAPTR) % NUM_DATAPTR = 0 THEN 1 ELSE 0)
RECURSIVE FindsOfExtend(_, _)
FindsOfExtend(from, to) ==
    IF from >= to THEN 0 ELSE FindsForSector(from) + FindsOfExtend(from + 1, to)

(* Some allocation of the last Extend found no clear sector. *)
AllocationFailed ==
    /\ fs.newSize > fs.before.raw.numBytes
    /\ fs.newSize <= MAX_FILE_SIZE
    /\ CountClear(fs.before)
           < FindsOfExtend(fs.before.raw.numSectors,
                           DivRoundUp(fs.newSize, SECTOR_SIZE))

(* Extend returned false. *)
ExtendFailed == fs.phase = "extended" /\ ~Stopped(fs.a) /\ ~fs.a.ret

(* C21: Extend with newSize at most the size of the file returns true and  *)
(* leaves the header and the bitmap as they were; it fails for newSize     *)
(* above MAX_FILE_SIZE; it fails if an allocation of a sector fails; and   *)
(* after a failed Extend the bitmap marks no sector that the header does   *)
(* not reach, the sectors marked before the file was made apart.           *)
C21_ExtendContract ==
    fs.phase = "extended"
        => /\ fs.newSize <= fs.before.raw.numBytes
                  => /\ ~Stopped(fs.a) /\ fs.a.ret
                     /\ fs.a.raw = fs.before.raw
                     /\ fs.a.freeMap = fs.before.freeMap
           /\ fs.newSize > MAX_FILE_SIZE => ExtendFailed
           /\ AllocationFailed => ExtendFailed
           /\ ExtendFailed
                  => fs.a.freeMap \ fs.base \subseteq FileSectors(fs.a, fs.a.raw)

(* C36: Deallocate of a file that Allocate made and Extend calls grew      *)
(* fails no assertion and frees every sector that was marked for the file: *)
(* the bitmap is again what it was before the file was made.               *)
C36_DeallocateFreesAll ==
    fs.phase = "deallocated"
        => ~Stopped(fs.a) /\ fs.a.freeMap = fs.base

(***************************************************************************)
(* The file table (Trunk/code/filesys/file_table.cc, and the earlier copy  *)
(* of it without the table lock): the list of SharedFile objects, the      *)
(* threads that call Open, MarkForRemove and Close on it, and the handles  *)
(* they hold.  A call runs until it waits for the disk: the constructor of *)
(* SharedFile reads the header and the destructor of a file marked for     *)
(* removal frees its sectors.                                              *)
(***************************************************************************)
MaxTableCalls == 4
TableBuilds == {"lock", "nolock"}
FileHeaders == {2, 3}

NoTableCall == [op |-> "none", thr |-> NULL, sector |-> 0, ret |-> FALSE,
                wasOpen |-> FALSE]

InitFileTable ==
    /\ KernelAtRest
    /\ vm = NULL
    /\ \E b \in TableBuilds :
           fs = [build |-> b,
                 fileTable |-> <<>>,
                 lock |-> NULL,
                 made |-> 0,
                 pc |-> [t \in Procs |-> "idle"],
                 sector |-> [t \in Procs |-> 0],
                 handles |-> [t \in Procs |-> <<>>],
                 liberated |-> {},
                 calls |-> 0,
                 g |-> NoTableCall]

(* List::Get: the first item of the list with the key, 0 for nullptr. *)
Get(table, key) ==
    IF \E i \in DOMAIN table : table[i].sector = key
    THEN CHOOSE i \in DOMAIN table :
             /\ table[i].sector = key
             /\ \A j \in DOMAIN table : table[j].sector = key => i <= j
    ELSE 0
(* The place of the SharedFile object a pointer names, 0 once deleted. *)
At(table, id) ==
    IF \E i \in DOMAIN table : table[i].id = id
    THEN CHOOSE i \in DOMAIN table : table[i].id = id
    ELSE 0
(* List::SortedInsert: after the items whose key is not greater. *)
SortedInsert(table, item) ==
    LET before == SelectSeq(table, LAMBDA x : x.sector <= item.sector)
        after == SelectSeq(table, LAMBDA x : x.sector > item.sector)
    IN  before \o <<item>> \o after
(* List::Remove of the item at place i. *)
RemoveAt(table, i) ==
    [k \in 1 .. Len(table) - 1 |-> IF k < i THEN table[k] ELSE table[k + 1]]

(* lock->Acquire() can go on: the build without the lock never waits. *)
TableLockFree(f) == f.build = "nolock" \/ f.lock = NULL
Locked(f, t) == IF f.build = "lock" THEN [f EXCEPT !.lock = t] ELSE f
Unlocked(f) == [f EXCEPT !.lock = NULL]
(* Some thread holds a handle on the sector. *)
IsOpen(f, sector) ==
    \E t \in Procs : \E k \in DOMAIN f.handles[t] : f.handles[t][k].sector = sector
Began(f, op, t, sector) ==
    [f EXCEPT !.calls = @ + 1,
              !.g = [op |-> op, thr |-> t, sector |-> sector, ret |-> FALSE,
                     wasOpen |-> IsOpen(f, sector)]]

(* FileTable::Open up to the read of the header: a SharedFile of the       *)
(* sector is in the list and gets one more user, or one has to be made.    *)
FileTableOpen(f, t, sector) ==
    LET i == Get(f.fileTable, sector) IN
    IF i # 0
    THEN [f EXCEPT !.fileTable[i].fileUsers = @ + 1,
                   !.handles[t] = Append(@, [id |-> f.fileTable[i].id,
                                             sector |-> sector])]
    ELSE [Locked(f, t) EXCEPT !.pc[t] = "opening", !.sector[t] = sector]

(* FileTable::Open from `new SharedFile(sector)` on, the header read. *)
FileTableOpened(f, t) ==
    LET sharedFile == [id |-> f.made + 1, sector |-> f.sector[t],
                       fileUsers |-> 1, removeOnDelete |-> FALSE]
    IN  [Unlocked(f) EXCEPT
            !.fileTable = SortedInsert(@, sharedFile),
            !.made = @ + 1,
            !.handles[t] = Append(@, [id |-> sharedFile.id,
                                      sector |-> sharedFile.sector]),
            !.pc[t] = "idle"]

(* FileTable::MarkForRemove *)
MarkForRemove(f, sector) ==
    LET i == Get(f.fileTable, sector) IN
    IF i = 0 THEN [f EXCEPT !.g.ret = FALSE]
    ELSE [f EXCEPT !.fileTable[i].removeOnDelete = TRUE, !.g.ret = TRUE]

(* The SharedFile that Close works on: Get(sector) of file_table.cc, the   *)
(* pointer of the handle in the copy without the lock.                     *)
Closing(f, handle) ==
    IF f.build = "lock" THEN Get(f.fileTable, handle.sector)
    ELSE At(f.fileTable, handle.id)

(* FileTable::Close that deletes the SharedFile whatever its count. *)
FileTableCloseDeletes(f, t, k) ==
    LET handle == f.handles[t][k]
        i == Closing(f, handle)
        dropped == [f EXCEPT !.handles[t] = RemoveAt(@, k)]
    IN  IF i = 0 THEN dropped
        ELSE [dropped EXCEPT !.fileTable = RemoveAt(@, i)]

(* FileTable::Close of the k-th handle of thread t, up to the wait for the *)
(* disk in FileSystem::Liberate.                                           *)
FileTableClose(f, t, k) ==
    LET handle == f.handles[t][k]
        i == Closing(f, handle)
        dropped == [f EXCEPT !.handles[t] = RemoveAt(@, k)]
    IN  IF i = 0 THEN dropped
        ELSE IF f.fileTable[i].fileUsers - 1 # 0
        THEN [dropped EXCEPT !.fileTable[i].fileUsers = @ - 1]
        ELSE IF f.fileTable[i].removeOnDelete
        THEN [Locked(dropped, t) EXCEPT !.fileTable = RemoveAt(@, i),
                                        !.pc[t] = "liberating",
                                        !.sector[t] = f.fileTable[i].sector]
        ELSE [dropped EXCEPT !.fileTable = RemoveAt(@, i)]

(* ~SharedFile of a file marked for removal, after FileSystem::Liberate. *)
Liberated(f, t) ==
    [Unlocked(f) EXCEPT !.liberated = @ \cup {f.sector[t]}, !.pc[t] = "idle"]

OpenCall ==
    /\ fs.calls < MaxTableCalls
    /\ TableLockFree(fs)
    /\ \E t \in Procs, sector \in FileHeaders :
           /\ fs.pc[t] = "idle"
           /\ fs' = FileTableOpen(Began(fs, "Open", t, sector), t, sector)
    /\ UNCHANGED vm
    /\ KernelIdle

OpenHeaderRead ==
    /\ \E t \in Procs :
           /\ fs.pc[t] = "opening"
           /\ fs' = FileTableOpened(fs, t)
    /\ UNCHANGED vm
    /\ KernelIdle

MarkForRemoveCall ==
    /\ fs.calls < MaxTableCalls
    /\ TableLockFree(fs)
    /\ \E t \in Procs, sector \in FileHeaders :
           /\ fs.pc[t] = "idle"
           /\ fs' = MarkForRemove(Began(fs, "MarkForRemove", t, sector), sector)
    /\ UNCHANGED vm
    /\ KernelIdle

CloseCall ==
    /\ TableLockFree(fs)
    /\ \E t \in Procs :
           /\ fs.pc[t] = "idle"
           /\ \E k \in DOMAIN fs.handles[t] :
                  fs' = FileTableClose(
                            [fs EXCEPT !.g = [NoTableCall EXCEPT
                                                 !.op = "Close", !.thr = t,
                                                 !.sector = fs.handles[t][k].sector]],
                            t, k)
    /\ UNCHANGED vm
    /\ KernelIdle

LiberateDone ==
    /\ \E t \in Procs :
           /\ fs.pc[t] = "liberating"
           /\ fs' = Liberated(fs, t)
    /\ UNCHANGED vm
    /\ KernelIdle

NextFileTable ==
    OpenCall \/ OpenHeaderRead \/ MarkForRemoveCall \/ CloseCall \/ LiberateDone

SpecFileTable == InitFileTable /\ [][NextFileTable]_vars

(* C23: for every SharedFile of the table with users no other SharedFile   *)
(* of the table has the same sector, whatever the interleaving of Open,    *)
(* Close and MarkForRemove, and MarkForRemove returns false exactly when   *)
(* no thread has the sector open.                                          *)
C23_OneSharedFilePerInode ==
    /\ \A i, j \in DOMAIN fs.fileTable :
           i # j /\ fs.fileTable[i].fileUsers > 0
               => fs.fileTable[i].sector # fs.fileTable[j].sector
    /\ fs.g.op = "MarkForRemove" => (~fs.g.ret <=> ~fs.g.wasOpen)

(* The handles that name the SharedFile object id: the OpenFile objects    *)
(* that keep its pointer and use its header and its lock.                  *)
Holders(f, id) ==
    {<<t, k>> \in Procs \X (1 .. MaxTableCalls) :
        k <= Len(f.handles[t]) /\ f.handles[t][k].id = id}

(* C40: the user count of a SharedFile is never below zero, a SharedFile   *)
(* is deleted only when nobody is counted on it, and no handle names a     *)
(* SharedFile that Close has deleted: the count of every SharedFile of the *)
(* table is the number of handles on it, at least one, and every handle    *)
(* names a SharedFile of the table, whatever the interleaving of Open and  *)
(* Close.                                                                  *)
C40_SharedFileLifetime ==
    /\ \A i \in DOMAIN fs.fileTable :
           /\ fs.fileTable[i].fileUsers >= 1
           /\ fs.fileTable[i].fileUsers
                  = Cardinality(Holders(fs, fs.fileTable[i].id))
    /\ \A t \in Procs : \A k \in DOMAIN fs.handles[t] :
           At(fs.fileTable, fs.handles[t][k].id) # 0

(* Two threads had the sector open, one has closed it and the SharedFile   *)
(* lives on for the other; on the build with the table lock.               *)
C40_Witness ==
    /\ fs.build = "lock"
    /\ fs.g.op = "Close"
    /\ \E i \in DOMAIN fs.fileTable :
           /\ fs.fileTable[i].sector = fs.g.sector
           /\ fs.fileTable[i].fileUsers = 1
           /\ \E u \in Procs \ {fs.g.thr} :
                  Holders(fs, fs.fileTable[i].id) = {<<u, 1>>}
    /\ \A k \in DOMAIN fs.handles[fs.g.thr] :
           fs.handles[fs.g.thr][k].sector # fs.g.sector

(***************************************************************************)
(* The file system under concurrent calls: FileSystem::Create, Open and    *)
(* Remove on the root directory, the close of a handle and                 *)
(* FileSystem::Liberate, by the threads of Procs.  A call runs until it    *)
(* has to wait: for the lock of the directory file, for the lock of the    *)
(* bitmap file, for the lock of the file table, or for the disk between    *)
(* the fetch of the bitmap and its write back.  The files have one direct  *)
(* sector.                                                                 *)
(***************************************************************************)
MaxSharedOps == 4
SPAM_FILE_SIZE == 1
NoLocal == [name |-> "", freeMap |-> {}]
NoSharedOp == [kind |-> "none", thr |-> NULL, name |-> "", sector |-> -1,
               ret |-> FALSE, wasOpen |-> FALSE]

(* The formatted disk with the file table, the locks of the two files of   *)
(* the file system and the locals of the calls.  `offset` is the argument  *)
(* of each Spam thread when the threads run Spam.                          *)
Mounted(spam, offset) ==
    [build |-> "lock",
     fileTable |-> <<>>,
     lock |-> NULL,
     made |-> 0,
     pc |-> [t \in Procs |-> "idle"],
     sector |-> [t \in Procs |-> 0],
     handles |-> [t \in Procs |-> <<>>],
     liberated |-> {},
     calls |-> 0,
     g |-> NoTableCall,
     dirLock |-> NULL,
     mapLock |-> NULL,
     local |-> [t \in Procs |-> NoLocal],
     spam |-> spam,
     offset |-> offset,
     created |-> [t \in Procs |-> 0],
     removed |-> [t \in Procs |-> 0],
     failed |-> FALSE,
     last |-> NoSharedOp] @@ Format

InitShared ==
    /\ KernelAtRest
    /\ vm = NULL
    /\ fs = Mounted(FALSE, [t \in Procs |-> 0])

(* The return of a call of thread t. *)
Returned(f, t, kind, name, sector, ret) ==
    [f EXCEPT !.pc[t] = "idle",
              !.local[t] = NoLocal,
              !.sector[t] = 0,
              !.failed = @ \/ (f.spam /\ ~ret),
              !.created[t] = IF f.spam /\ kind = "Create" THEN @ + 1 ELSE @,
              !.removed[t] = IF f.spam /\ kind = "Remove" THEN @ + 1 ELSE @,
              !.last = [kind |-> kind, thr |-> t, name |-> name,
                        sector |-> sector, ret |-> ret,
                        wasOpen |-> sector # -1 /\ IsOpen(f, sector)]]

(* FileSystem::Create up to freeMapFile->LockFile(): the directory is      *)
(* locked and fetched; a name that is there ends the call.                 *)
CreateBegun(f, t, name) ==
    IF DirectoryFind(f, name) # -1
    THEN Returned(f, t, "Create", name, -1, FALSE)
    ELSE [f EXCEPT !.dirLock = t, !.pc[t] = "createMap", !.local[t].name = name]

(* freeMapFile->LockFile(); freeMap->FetchFrom(freeMapFile) *)
MapFetched(f, t, next) ==
    [f EXCEPT !.mapLock = t, !.local[t].freeMap = f.freeMap, !.pc[t] = next]

(* FileSystem::Create from freeMap->Find() on, with the bitmap the call    *)
(* fetched.                                                                *)
CreateWritten(f, t, initialSize) ==
    LET name == f.local[t].name
        unlocked == [f EXCEPT !.dirLock = NULL, !.mapLock = NULL]
    IN
    With(BitmapFind(Call([f EXCEPT !.freeMap = f.local[t].freeMap], FreshHeader)),
         LAMBDA found :
    With(DirectoryAdd(unlocked, name, found.found), LAMBDA added :
    IF found.found = -1 \/ ~added.ret
    THEN Returned(unlocked, t, "Create", name, -1, FALSE)
    ELSE
    With(Allocate(found, initialSize, FALSE), LAMBDA h :
    IF Stopped(h) THEN Stop(unlocked, h)
    ELSE IF ~h.ret THEN Returned(unlocked, t, "Create", name, -1, FALSE)
    ELSE Returned([added EXCEPT !.headers[found.found] = h.raw,
                                !.freeMap = h.freeMap,
                                !.disk = h.disk],
                  t, "Create", name, found.found, TRUE))))

(* FileSystem::Remove up to fileTable->MarkForRemove(sector). *)
RemoveBegun(f, t, name) ==
    LET sector == DirectoryFind(f, name) IN
    IF sector = -1 \/ f.headers[sector].directory
    THEN Returned(f, t, "Remove", name, -1, FALSE)
    ELSE [f EXCEPT !.dirLock = t, !.pc[t] = "removeMark",
                   !.local[t].name = name, !.sector[t] = sector]

(* FileSystem::Remove from fileTable->MarkForRemove(sector) to             *)
(* freeMapFile->LockFile(): a file in use leaves the directory and the     *)
(* call returns.                                                           *)
RemoveMarked(f, t) ==
    With(MarkForRemove(f, f.sector[t]), LAMBDA m :
        IF m.g.ret
        THEN Returned([DirectoryRemove(m, f.local[t].name) EXCEPT !.dirLock = NULL],
                      t, "Remove", f.local[t].name, f.sector[t], TRUE)
        ELSE [m EXCEPT !.pc[t] = "removeMap"])

(* FileSystem::Remove from fileH->Deallocate(freeMap) on. *)
RemoveWritten(f, t, junk) ==
    LET sector == f.sector[t]
        name == f.local[t].name
        unlocked == [f EXCEPT !.dirLock = NULL, !.mapLock = NULL]
    IN
    With(Deallocate(Call([f EXCEPT !.freeMap = f.local[t].freeMap],
                         f.headers[sector]), junk),
         LAMBDA d :
        IF Stopped(d) THEN Stop(unlocked, d)
        ELSE Returned([DirectoryRemove(unlocked, name)
                          EXCEPT !.freeMap = d.freeMap \ {sector}],
                      t, "Remove", name, sector, TRUE))

(* FileSystem::Open up to `new OpenFile(sector)`. *)
OpenBegun(f, t, name) ==
    LET sector == DirectoryFind(f, name) IN
    IF sector = -1 THEN Returned(f, t, "Open", name, -1, FALSE)
    ELSE [f EXCEPT !.dirLock = t, !.pc[t] = "openTable",
                   !.local[t].name = name, !.sector[t] = sector]

(* `new OpenFile(sector)`, which asks the file table for the SharedFile,   *)
(* and the end of FileSystem::Open.                                        *)
OpenTabled(f, t) ==
    With(FileTableOpen(f, t, f.sector[t]), LAMBDA o :
    With(IF o.pc[t] = "opening" THEN FileTableOpened(o, t) ELSE o, LAMBDA p :
        IF f.headers[f.sector[t]].directory
        THEN Returned([p EXCEPT !.dirLock = NULL], t, "Open",
                      f.local[t].name, f.sector[t], FALSE)
        ELSE Returned([p EXCEPT !.dirLock = NULL], t, "Open",
                      f.local[t].name, f.sector[t], TRUE)))

(* FileSystem::Liberate up to freeMap->FetchFrom(freeMapFile): no lock of  *)
(* the bitmap file is taken.                                               *)
LiberateFetched(f, t) ==
    [f EXCEPT !.local[t].freeMap = f.freeMap, !.pc[t] = "liberateWrite"]

(* FileSystem::Liberate from fileH->Deallocate(freeMap) on, and the end of *)
(* FileTable::Close.                                                       *)
LiberateWritten(f, t, junk) ==
    LET sector == f.sector[t] IN
    With(Deallocate(Call([f EXCEPT !.freeMap = f.local[t].freeMap],
                         f.headers[sector]), junk),
         LAMBDA d :
        IF Stopped(d) THEN Stop(f, d)
        ELSE Returned(Liberated([f EXCEPT !.freeMap = d.freeMap \ {sector}], t),
                      t, "Close", "", sector, TRUE))

SharedLive == ~fs.fatal /\ ~fs.undefined
Idle(t) == SharedLive /\ fs.pc[t] = "idle"
Counted(f) == [f EXCEPT !.ops = @ + 1]

CreateBegin ==
    /\ ~fs.spam /\ fs.ops < MaxSharedOps /\ fs.dirLock = NULL
    /\ \E t \in Procs, name \in Names :
           /\ Idle(t)
           /\ fs' = CreateBegun(Counted(fs), t, name)
    /\ UNCHANGED vm
    /\ KernelIdle

CreateFetchMap ==
    /\ SharedLive /\ fs.mapLock = NULL
    /\ \E t \in Procs :
           /\ fs.pc[t] = "createMap"
           /\ fs' = MapFetched(fs, t, "createWrite")
    /\ UNCHANGED vm
    /\ KernelIdle

CreateWrite ==
    /\ SharedLive
    /\ \E t \in Procs :
           /\ fs.pc[t] = "createWrite"
           /\ fs' = CreateWritten(fs, t, SPAM_FILE_SIZE)
    /\ UNCHANGED vm
    /\ KernelIdle

RemoveBegin ==
    /\ ~fs.spam /\ fs.ops < MaxSharedOps /\ fs.dirLock = NULL
    /\ \E t \in Procs, name \in Names :
           /\ Idle(t)
           /\ fs' = RemoveBegun(Counted(fs), t, name)
    /\ UNCHANGED vm
    /\ KernelIdle

RemoveMark ==
    /\ SharedLive /\ TableLockFree(fs)
    /\ \E t \in Procs :
           /\ fs.pc[t] = "removeMark"
           /\ fs' = RemoveMarked(fs, t)
    /\ UNCHANGED vm
    /\ KernelIdle

RemoveFetchMap ==
    /\ SharedLive /\ fs.mapLock = NULL
    /\ \E t \in Procs :
           /\ fs.pc[t] = "removeMap"
           /\ fs' = MapFetched(fs, t, "removeWrite")
    /\ UNCHANGED vm
    /\ KernelIdle

RemoveWrite ==
    /\ SharedLive
    /\ \E t \in Procs, junk \in JunkWords :
           /\ fs.pc[t] = "removeWrite"
           /\ fs' = RemoveWritten(fs, t, junk)
    /\ UNCHANGED vm
    /\ KernelIdle

OpenBegin ==
    /\ ~fs.spam /\ fs.ops < MaxSharedOps /\ fs.dirLock = NULL
    /\ \E t \in Procs, name \in Names :
           /\ Idle(t)
           /\ fs' = OpenBegun(Counted(fs), t, name)
    /\ UNCHANGED vm
    /\ KernelIdle

OpenTable ==
    /\ SharedLive /\ TableLockFree(fs)
    /\ \E t \in Procs :
           /\ fs.pc[t] = "openTable"
           /\ fs' = OpenTabled(fs, t)
    /\ UNCHANGED vm
    /\ KernelIdle

(* ~OpenFile: FileTable::Close of the sector of the handle. *)
CloseBegin ==
    /\ ~fs.spam /\ TableLockFree(fs)
    /\ \E t \in Procs :
           /\ Idle(t)
           /\ \E k \in DOMAIN fs.handles[t] :
                  With(FileTableClose(fs, t, k), LAMBDA c :
                      fs' = IF c.pc[t] = "liberating" THEN c
                            ELSE Returned(c, t, "Close", "",
                                          fs.handles[t][k].sector, TRUE))
    /\ UNCHANGED vm
    /\ KernelIdle

LiberateFetch ==
    /\ SharedLive
    /\ \E t \in Procs :
           /\ fs.pc[t] = "liberating"
           /\ fs' = LiberateFetched(fs, t)
    /\ UNCHANGED vm
    /\ KernelIdle

LiberateWrite ==
    /\ SharedLive
    /\ \E t \in Procs, junk \in JunkWords :
           /\ fs.pc[t] = "liberateWrite"
           /\ fs' = LiberateWritten(fs, t, junk)
    /\ UNCHANGED vm
    /\ KernelIdle

NextShared ==
    \/ CreateBegin \/ CreateFetchMap \/ CreateWrite
    \/ RemoveBegin \/ RemoveMark \/ RemoveFetchMap \/ RemoveWrite
    \/ OpenBegin \/ OpenTable
    \/ CloseBegin \/ LiberateFetch \/ LiberateWrite

SpecShared == InitShared /\ [][NextShared]_vars

(* The sectors of the files that are open: the header of every SharedFile  *)
(* of the table and the sectors the header leads to.                       *)
HeldOpen(f) ==
    UNION {{f.fileTable[i].sector}
               \cup FileSectors(f, f.headers[f.fileTable[i].sector]) :
           i \in DOMAIN f.fileTable}
Quiet(f) == \A t \in Procs : f.pc[t] = "idle"

(* C22: a Remove of a file that a thread has open returns true and the     *)
(* name is gone from the directory, so that an Open of it returns null;    *)
(* the header and the data sectors of every file that is open stay marked  *)
(* in the bitmap, so that the holder reads and writes its own sectors; and *)
(* when no call is under way the bitmap marks nothing but the sectors      *)
(* reachable from the directory and those of the files still open: the     *)
(* sectors of a removed file are freed by the close of its last holder.    *)
C22_DeferredRemoval ==
    SharedLive
        => /\ fs.last.kind = "Remove" /\ fs.last.wasOpen
                  => fs.last.ret /\ fs.table[fs.last.name] # fs.last.sector
           /\ fs.last.kind = "Open" /\ ~fs.last.ret
                  => fs.last.sector = -1
           /\ HeldOpen(fs) \subseteq fs.freeMap
           /\ HeldOpen(fs) \cap Reachable(fs) \subseteq
                  {fs.table[n] : n \in Names} \cup
                  UNION {FileSectors(fs, fs.headers[fs.table[n]]) :
                             n \in {m \in Names : fs.table[m] # -1}}
           /\ Quiet(fs) => fs.freeMap = Reachable(fs) \cup HeldOpen(fs)

(* C33: the bitmap update of FileSystem::Liberate and the update of a      *)
(* Create or a Remove that runs along with it are both kept: once a file   *)
(* has been liberated and no call is under way, every sector reachable     *)
(* from the directory or held by an open file is marked (the update of the *)
(* other call is not overwritten), and nothing else is marked (the update  *)
(* of Liberate is not lost).                                               *)
C33_LiberateUpdateKept ==
    SharedLive /\ Quiet(fs) /\ fs.liberated # {}
        => /\ Reachable(fs) \cup HeldOpen(fs) \subseteq fs.freeMap
           /\ fs.freeMap \subseteq Reachable(fs) \cup HeldOpen(fs)

(***************************************************************************)
(* The contention test of DirectoryTest: two threads run Spam, each with   *)
(* the offset it is given.  Spam creates its files and then removes them;  *)
(* the name of the i-th file is made of offset * SPAM_BATCH + i.           *)
(***************************************************************************)
SPAM_BATCH == 1
SpamOffsets == 0 .. 1
SpamName(n) == <<"a", "b">>[n + 1]

InitSpam ==
    /\ KernelAtRest
    /\ vm = NULL
    /\ \E offset \in [Procs -> SpamOffsets] : fs = Mounted(TRUE, offset)

(* The first loop of Spam: fileSystem->Create(name, 10). *)
SpamCreate ==
    /\ fs.spam /\ fs.dirLock = NULL
    /\ \E t \in Procs :
           /\ Idle(t)
           /\ fs.created[t] < SPAM_BATCH
           /\ fs' = CreateBegun(fs, t, SpamName(fs.offset[t] * SPAM_BATCH
                                                    + fs.created[t]))
    /\ UNCHANGED vm
    /\ KernelIdle

(* The second loop of Spam: fileSystem->Remove(name). *)
SpamRemove ==
    /\ fs.spam /\ fs.dirLock = NULL
    /\ \E t \in Procs :
           /\ Idle(t)
           /\ fs.created[t] = SPAM_BATCH
           /\ fs.removed[t] < SPAM_BATCH
           /\ fs' = RemoveBegun(fs, t, SpamName(fs.offset[t] * SPAM_BATCH
                                                    + fs.removed[t]))
    /\ UNCHANGED vm
    /\ KernelIdle

NextSpam ==
    \/ SpamCreate \/ CreateFetchMap \/ CreateWrite
    \/ SpamRemove \/ RemoveMark \/ RemoveFetchMap \/ RemoveWrite

SpecSpam == InitSpam /\ [][NextSpam]_vars

SpamDone ==
    \A t \in Procs : /\ fs.pc[t] = "idle"
                     /\ fs.created[t] = SPAM_BATCH
                     /\ fs.removed[t] = SPAM_BATCH

(* C25: while the two Spam threads run no Create and no Remove of theirs   *)
(* returns false, and once both have returned the directory has no entry   *)
(* and the bitmap is the one of before the threads.                        *)
C25_SpamBatch ==
    SharedLive
        => /\ ~fs.failed
           /\ SpamDone => /\ \A n \in Names : fs.table[n] = -1
                          /\ fs.freeMap = Format.freeMap

(***************************************************************************)
(* FileSystem::OpenDirectory: the walk along a path, by two threads, over  *)
(* a tree of directories that stays as it is: the root holds the           *)
(* directory d and the file x, d holds the directory e, e holds the file   *)
(* f.  A path is the sequence of its components, the last one being the    *)
(* name OpenDirectory does not look up ("" after a closing bar).  The two  *)
(* copies of the routine are the builds; a walk is cut where it locks a    *)
(* directory file.                                                         *)
(***************************************************************************)
MaxWalks == 3
WalkBuilds == {"file_system", "extensible_file_test"}
SubDir == DIRECTORY_SECTOR + 4
SubSubDir == SubDir + 1
(* nullptr for an OpenFile of a directory. *)
NoDir == -1
DirSectors == {DIRECTORY_SECTOR, SubDir, SubSubDir}
Tree == [s \in DirSectors |->
            CASE s = DIRECTORY_SECTOR -> [n \in {"d", "x"} |-> IF n = "d" THEN SubDir ELSE SubSubDir + 1]
              [] s = SubDir -> [n \in {"e"} |-> SubSubDir]
              [] OTHER -> [n \in {"f"} |-> SubSubDir + 2]]
Paths == {<<"d", "e", "f">>, <<"d", "f">>, <<"e", "f">>, <<"x", "f">>,
          <<"n", "f">>, <<"d", "">>, <<"f">>, <<"">>}

(* Directory::Find *)
Lookup(dir, name) == IF name \in DOMAIN Tree[dir] THEN Tree[dir][name] ELSE -1
(* FileHeader::IsDirectory of the header in the sector. *)
IsDirectory(sector) == sector \in DirSectors

InitWalk ==
    /\ KernelAtRest
    /\ vm = NULL
    /\ \E b \in WalkBuilds, cwd \in [Procs -> {NoDir, SubDir}] :
           fs = [build |-> b,
                 locks |-> [s \in DirSectors |-> NULL],
                 currentDirectory |-> cwd,
                 pc |-> [t \in Procs |-> "idle"],
                 path |-> [t \in Procs |-> <<>>],
                 dirFile |-> [t \in Procs |-> NoDir],
                 temp |-> [t \in Procs |-> NoDir],
                 closeDir |-> [t \in Procs |-> FALSE],
                 success |-> [t \in Procs |-> FALSE],
                 walks |-> 0]

(* The locks of directory files thread t holds. *)
HeldBy(f, t) == {s \in DirSectors : f.locks[s] = t}

(* The return of OpenDirectory: dirFile[t] is what it returns. *)
WalkReturned(f, t, success, dirFile) ==
    [f EXCEPT !.pc[t] = "returned", !.success[t] = success,
              !.dirFile[t] = dirFile, !.temp[t] = NoDir, !.path[t] = <<>>]

(* OpenDirectory up to dirFile->LockFile(). *)
OpenDirectory(f, t, absolute, path) ==
    LET rootDir == absolute \/ f.currentDirectory[t] = NoDir
        dirFile == IF f.build = "file_system"
                   THEN IF rootDir THEN DIRECTORY_SECTOR
                        ELSE f.currentDirectory[t]
                   ELSE IF absolute THEN DIRECTORY_SECTOR
                        ELSE IF f.currentDirectory[t] # NoDir
                        THEN f.currentDirectory[t]
                        ELSE DIRECTORY_SECTOR
    IN  IF f.build = "file_system" /\ path = <<"">>
        THEN WalkReturned(f, t, FALSE, NoDir)
        ELSE [f EXCEPT !.pc[t] = "lockFile", !.dirFile[t] = dirFile,
                       !.path[t] = path, !.closeDir[t] = FALSE,
                       !.success[t] = TRUE]

(* The end of OpenDirectory: after a failure the lock of dirFile is given  *)
(* back, and a directory the walk opened is closed.                        *)
WalkEnd(f, t, success) ==
    IF success THEN WalkReturned(f, t, TRUE, f.dirFile[t])
    ELSE WalkReturned([f EXCEPT !.locks[f.dirFile[t]] = NULL], t, FALSE,
                      IF f.closeDir[t] THEN NoDir ELSE f.dirFile[t])

(* path = nextBar + 1 and the next test of the loop: the copy of           *)
(* file_system.cc fails on a path that ends in a bar.                      *)
WalkOn(f, t, success) ==
    LET rest == Tail(f.path[t])
        ok == success /\ ~(f.build = "file_system" /\ rest = <<"">>)
    IN  IF ok /\ Len(rest) > 1
        THEN [f EXCEPT !.path[t] = rest, !.pc[t] = "loop"]
        ELSE WalkEnd(f, t, ok)

(* One turn of the loop up to temp->LockFile(). *)
WalkLoop(f, t) ==
    LET sector == Lookup(f.dirFile[t], Head(f.path[t])) IN
    IF sector = -1 THEN WalkOn(f, t, FALSE)
    ELSE IF ~IsDirectory(sector) THEN WalkOn(f, t, FALSE)
    ELSE [f EXCEPT !.temp[t] = sector, !.pc[t] = "lockTemp"]

(* dirFile->LockFile() before the loop has the lock. *)
LockedFirst(f, t) ==
    [f EXCEPT !.locks[f.dirFile[t]] = t,
              !.pc[t] = IF Len(f.path[t]) > 1 THEN "loop" ELSE "returned",
              !.path[t] = IF Len(f.path[t]) > 1 THEN @ ELSE <<>>]

(* The walk gives the lock of dirFile back when it asks for the one of     *)
(* temp.                                                                   *)
LockedNextUnlockedFirst(f, t) ==
    [f EXCEPT !.locks[f.temp[t]] = t, !.locks[f.dirFile[t]] = NULL,
              !.pc[t] = "unlockFile"]
(* temp->LockFile() has the lock. *)
LockedNext(f, t) ==
    [f EXCEPT !.locks[f.temp[t]] = t, !.pc[t] = "unlockFile"]

(* dirFile->UnlockFile(); dirFile = temp; and on to the next component. *)
UnlockedPrevious(f, t) ==
    WalkOn([f EXCEPT !.locks[f.dirFile[t]] = NULL,
                     !.closeDir[t] = TRUE,
                     !.dirFile[t] = f.temp[t],
                     !.temp[t] = NoDir],
           t, TRUE)

OpenDirectoryCall ==
    /\ fs.walks < MaxWalks
    /\ \E t \in Procs, absolute \in BOOLEAN, path \in Paths :
           /\ fs.pc[t] = "idle"
           /\ fs' = OpenDirectory([fs EXCEPT !.walks = @ + 1], t, absolute, path)
    /\ UNCHANGED vm
    /\ KernelIdle

LockFile ==
    /\ \E t \in Procs :
           /\ fs.pc[t] = "lockFile"
           /\ fs.locks[fs.dirFile[t]] = NULL
           /\ fs' = LockedFirst(fs, t)
    /\ UNCHANGED vm
    /\ KernelIdle

Walk ==
    /\ \E t \in Procs :
           /\ fs.pc[t] = "loop"
           /\ fs' = WalkLoop(fs, t)
    /\ UNCHANGED vm
    /\ KernelIdle

LockTemp ==
    /\ \E t \in Procs :
           /\ fs.pc[t] = "lockTemp"
           /\ fs.locks[fs.temp[t]] = NULL
           /\ fs' = LockedNext(fs, t)
    /\ UNCHANGED vm
    /\ KernelIdle

UnlockFile ==
    /\ \E t \in Procs :
           /\ fs.pc[t] = "unlockFile"
           /\ fs' = UnlockedPrevious(fs, t)
    /\ UNCHANGED vm
    /\ KernelIdle

(* The caller of OpenDirectory is done with the directory: it unlocks the  *)
(* file it was given locked.                                               *)
CallerUnlock ==
    /\ \E t \in Procs :
           /\ fs.pc[t] = "returned"
           /\ fs' = [fs EXCEPT !.locks = [s \in DirSectors |->
                                             IF fs.success[t] /\ s = fs.dirFile[t]
                                             THEN NULL ELSE @[s]],
                               !.pc[t] = "idle",
                               !.dirFile[t] = NoDir,
                               !.closeDir[t] = FALSE,
                               !.success[t] = FALSE]
    /\ UNCHANGED vm
    /\ KernelIdle

NextWalk ==
    OpenDirectoryCall \/ LockFile \/ Walk \/ LockTemp \/ UnlockFile \/ CallerUnlock

SpecWalk == InitWalk /\ [][NextWalk]_vars

(* C24: a thread that walks a path holds the lock of the directory it is   *)
(* in at every moment of the walk; when it gives that lock back it has the *)
(* lock of the next directory already; it never holds more than these two  *)
(* locks; and when OpenDirectory returns it holds the lock of the          *)
(* directory it returns and no other, and no lock at all after a failure.  *)
C24_HandOverHand ==
    \A t \in Procs :
        /\ Cardinality(HeldBy(fs, t)) <= 2
        /\ fs.pc[t] \in {"loop", "lockTemp"} => HeldBy(fs, t) = {fs.dirFile[t]}
        /\ fs.pc[t] = "unlockFile"
               => /\ fs.dirFile[t] # fs.temp[t]
                  /\ HeldBy(fs, t) = {fs.dirFile[t], fs.temp[t]}
        /\ fs.pc[t] = "returned"
               => HeldBy(fs, t) = IF fs.success[t] THEN {fs.dirFile[t]} ELSE {}
        /\ fs.pc[t] \in {"idle", "lockFile"} => HeldBy(fs, t) = {}

(* A walk has come back with the lock of e, two directories down, while    *)
(* the other thread, in d, waits for that lock.                            *)
C24_Witness ==
    \E t, u \in Procs :
        /\ fs.pc[t] = "returned" /\ fs.success[t] /\ fs.dirFile[t] = SubSubDir
        /\ fs.closeDir[t]
        /\ fs.pc[u] = "lockTemp" /\ fs.temp[u] = SubSubDir
        /\ fs.locks[SubDir] = u

(***************************************************************************)
(* The file system with directories (FileSystem of                         *)
(* extensible_file_test.cc): Create, Remove, MakeDirectory,                *)
(* RemoveDirectory and ChangeDirectory on paths of one or two components,  *)
(* called one at a time by two threads, each with its current directory.   *)
(* A path is the sequence of its components.  What a data sector holds is  *)
(* the table of directory entries it reads as: the entries with a name,    *)
(* and the number of entries that are in use under no name anyone asks     *)
(* for, which is what the bytes of a file may read as.                     *)
(***************************************************************************)
MaxDirOps == 4
MaxDirWrites == 1
DirPaths == {<<"a">>, <<"b">>, <<"a", "a">>, <<"a", "b">>}
(* The thread that calls the operations; every thread changes directory. *)
Caller == "T1"
(* A path from the root and a path from the current directory differ for   *)
(* a thread that has a current directory.                                  *)
Starts(t) == IF fs.currentDirectory[t] = NoDir THEN {FALSE} ELSE BOOLEAN
ZeroData == [table |-> [n \in Names |-> -1], ghosts |-> 0]
NoDirOp == [kind |-> "none", thr |-> NULL, absolute |-> FALSE, path |-> <<>>,
            named |-> NoDir, freeMap |-> {},
            data |-> [s \in Sectors |-> ZeroData],
            cwd |-> [t \in Procs |-> NoDir],
            entries |-> 0, used |-> FALSE]

(* FileSystem::FileSystem(true): the formatted disk, every data sector     *)
(* zero, the root directory written with no entry.                         *)
InitDirs ==
    /\ KernelAtRest
    /\ vm = NULL
    /\ fs = [freeMap |-> Format.freeMap,
             headers |-> Format.headers,
             disk |-> Format.disk,
             data |-> [s \in Sectors |-> ZeroData],
             currentDirectory |-> [t \in Procs |-> NoDir],
             fatal |-> FALSE, undefined |-> FALSE, ret |-> FALSE,
             held |-> {}, stray |-> FALSE, order |-> {},
             op |-> NoDirOp, prev |-> NoDirOp, ops |-> 0, writes |-> 0]

(* The sector with the table of the directory whose header is in `dir`. *)
TableSector(f, dir) == f.headers[dir].dataSectors[0]
(* Directory::FetchFrom of the directory file. *)
FetchFrom(f, dir) == f.data[TableSector(f, dir)]
(* Directory::Add can go on: the name is new and an entry is free. *)
HasRoom(d, name) ==
    /\ d.table[name] = -1
    /\ Cardinality({n \in Names : d.table[n] # -1}) + d.ghosts < NUM_DIR_ENTRIES
(* Directory::Empty *)
Empty(d) == d.ghosts = 0 /\ \A n \in Names : d.table[n] = -1
(* FileTable::Used: a thread has the directory as its current directory. *)
Used(f, sector) == \E t \in Procs : f.currentDirectory[t] = sector

(* FileSystem::FindFile and OpenDirectory: the directory to work in and    *)
(* the name in it.  When the first component names no directory the walk   *)
(* unlocks the directory it started from and still returns it.             *)
FindFile(f, t, absolute, path) ==
    LET start == IF absolute THEN DIRECTORY_SECTOR
                 ELSE IF f.currentDirectory[t] # NoDir THEN f.currentDirectory[t]
                 ELSE DIRECTORY_SECTOR
        sector == FetchFrom(f, start).table[path[1]]
    IN  IF Len(path) = 1
        THEN [dirFile |-> start, locked |-> TRUE, filename |-> path[1],
              held |-> {start}, order |-> {}]
        ELSE IF sector = -1 \/ ~f.headers[sector].directory
        THEN [dirFile |-> start, locked |-> FALSE, filename |-> path[2],
              held |-> {start} \ {start}, order |-> {}]
        ELSE [dirFile |-> sector, locked |-> TRUE, filename |-> path[2],
              held |-> ({start} \cup {sector}) \ {start},
              order |-> {<<start, sector>>}]

(* The locks of the files the calling thread holds: OpenFile::LockFile and *)
(* OpenFile::UnlockFile of the file whose header is in `file`.  Lock       *)
(* asserts that the thread that acquires does not hold the lock and that   *)
(* the thread that releases does.  `order` keeps, for every lock acquired  *)
(* so far, the locks the thread held at that moment.                       *)
LockFileOf(f, file) ==
    IF file \in f.held THEN [f EXCEPT !.fatal = TRUE]
    ELSE [f EXCEPT !.held = @ \cup {file},
                   !.order = @ \cup {<<h, file>> : h \in f.held}]
UnlockHeld(f, file) ==
    IF file \in f.held THEN [f EXCEPT !.held = @ \ {file}]
    ELSE [f EXCEPT !.fatal = TRUE, !.stray = TRUE]
(* The file system when FindFile has returned r. *)
Walked(f, r) == [f EXCEPT !.held = r.held, !.order = @ \cup r.order]

(* dirFile->UnlockFile() of the caller: Lock::Release by a thread that     *)
(* does not hold the lock fails its assertion.                             *)
UnlockFileOf(f, r) == UnlockHeld(f, r.dirFile)
Result(f, r, ret) == [UnlockFileOf(f, r) EXCEPT !.ret = ret]

(* FileSystem::Create and FileSystem::MakeDirectory after FindFile: they   *)
(* differ in the size and in the directory flag of the header.             *)
MakeEntry(f, r, size, directory) ==
    IF FetchFrom(f, r.dirFile).table[r.filename] # -1
    THEN Result(f, r, FALSE)
    ELSE
    With(LockFileOf(f, FREE_MAP_SECTOR), LAMBDA m :
    With(BitmapFind(Call(m, FreshHeader)), LAMBDA found :
    IF found.found = -1 \/ ~HasRoom(FetchFrom(m, r.dirFile), r.filename)
    THEN Result(UnlockHeld(m, FREE_MAP_SECTOR), r, FALSE)
    ELSE
    With(Allocate(found, size, directory), LAMBDA h :
    IF Stopped(h) THEN Stop(m, h)
    ELSE IF ~h.ret THEN Result(UnlockHeld(m, FREE_MAP_SECTOR), r, FALSE)
    ELSE Result(UnlockHeld(
                    [m EXCEPT !.headers[found.found] = h.raw,
                              !.freeMap = h.freeMap,
                              !.disk = h.disk,
                              !.data[TableSector(f, r.dirFile)].table[r.filename] =
                                  found.found],
                    FREE_MAP_SECTOR),
                r, TRUE))))

(* FileSystem::MakeDirectory: the data sectors of the new directory are    *)
(* allocated and left as they are.                                         *)
MakeDirectory(f, r) == MakeEntry(f, r, DIRECTORY_FILE_SIZE, TRUE)

(* The end of Remove and RemoveDirectory: the directory is written and     *)
(* unlocked, then the bitmap.                                              *)
Unlinked(f, r, sector, junk) ==
    With(LockFileOf(f, FREE_MAP_SECTOR), LAMBDA m :
    With(Deallocate(Call(m, m.headers[sector]), junk), LAMBDA d :
        IF Stopped(d) THEN Stop(m, d)
        ELSE With(UnlockFileOf(
                      [m EXCEPT !.data[TableSector(f, r.dirFile)].table[r.filename] = -1],
                      r),
                  LAMBDA u :
                 IF u.fatal THEN u
                 ELSE [UnlockHeld(u, FREE_MAP_SECTOR) EXCEPT
                          !.freeMap = d.freeMap \ {sector}, !.ret = TRUE])))

(* FileSystem::Remove after FindFile; no file is open. *)
RemoveFile(f, r, junk) ==
    LET sector == FetchFrom(f, r.dirFile).table[r.filename] IN
    IF sector = -1 THEN Result(f, r, FALSE)
    ELSE IF f.headers[sector].directory THEN Result(f, r, FALSE)
    ELSE Unlinked(f, r, sector, junk)

(* FileSystem::RemoveDirectory after FindFile. *)
RemoveDirectory(f, r, junk) ==
    LET sector == FetchFrom(f, r.dirFile).table[r.filename] IN
    IF sector = -1 THEN Result(f, r, FALSE)
    ELSE IF ~f.headers[sector].directory THEN Result(f, r, FALSE)
    ELSE IF Used(f, sector) THEN Result(f, r, FALSE)
    ELSE With(UnlockHeld(LockFileOf(f, sector), sector), LAMBDA g :
             IF g.fatal THEN g
             ELSE IF ~Empty(FetchFrom(g, sector)) THEN Result(g, r, FALSE)
             ELSE Unlinked(g, r, sector, junk))

(* FileSystem::ChangeDirectory after FindFile, for a path that does not    *)
(* end in a bar.                                                           *)
ChangeDirectory(f, t, r) ==
    LET sector == FetchFrom(f, r.dirFile).table[r.filename]
        success == sector = -1 \/ f.headers[sector].directory
    IN  With(Result(f, r, success), LAMBDA u :
            IF u.fatal \/ ~success THEN u
            ELSE [u EXCEPT !.currentDirectory[t] =
                               IF sector = -1 THEN NoDir ELSE sector])

(* FileSystem::ListDirectory after FindFile, for a path that does not end  *)
(* in a bar: a name that is not there lists the directory it was looked    *)
(* up in.                                                                  *)
ListDirectory(f, r) ==
    LET sector == FetchFrom(f, r.dirFile).table[r.filename] IN
    Result(f, r, sector = -1 \/ f.headers[sector].directory)

(* FileSystem::Open of a file, OpenFile::Write of bytes that read as       *)
(* `ghosts` directory entries in use, and the close of the file.           *)
WriteFile(f, r, ghosts) ==
    LET sector == FetchFrom(f, r.dirFile).table[r.filename] IN
    IF sector = -1 THEN Result(f, r, FALSE)
    ELSE IF f.headers[sector].directory THEN Result(f, r, FALSE)
    ELSE With(Result(f, r, TRUE), LAMBDA u :
             IF u.fatal THEN u
             ELSE [u EXCEPT !.data[TableSector(f, sector)] =
                                [ZeroData EXCEPT !.ghosts = ghosts]])

(* The directory a path names with all its components but the last, NoDir  *)
(* if there is none.                                                       *)
Named(f, t, absolute, path) ==
    IF FindFile(f, t, absolute, path).locked
    THEN FindFile(f, t, absolute, path).dirFile ELSE NoDir
(* The entry the whole path names, -1 if there is none. *)
TargetOf(f, t, absolute, path) ==
    IF Named(f, t, absolute, path) = NoDir THEN -1
    ELSE FetchFrom(f, Named(f, t, absolute, path)).table[path[Len(path)]]

DirsLive == ~fs.fatal /\ ~fs.undefined /\ fs.ops < MaxDirOps
(* The call with what it found: the bitmap, the tables, and for the entry  *)
(* the path names the number of its entries and whether it is open.        *)
Called(kind, t, absolute, path) ==
    LET target == TargetOf(fs, t, absolute, path) IN
    [kind |-> kind, thr |-> t, absolute |-> absolute, path |-> path,
     named |-> Named(fs, t, absolute, path),
     freeMap |-> fs.freeMap, data |-> fs.data, cwd |-> fs.currentDirectory,
     entries |-> IF target # -1 /\ fs.headers[target].directory
                 THEN Cardinality({n \in Names :
                                      FetchFrom(fs, target).table[n] # -1})
                 ELSE 0,
     used |-> target # -1 /\ Used(fs, target)]
Logged(f, kind, t, absolute, path) ==
    [f EXCEPT !.op = Called(kind, t, absolute, path),
              !.prev = IF fs.op.kind = "MakeDirectory" /\ fs.ret
                       THEN fs.op ELSE NoDirOp,
              !.ops = IF kind = "Write" THEN @ ELSE @ + 1,
              !.writes = IF kind = "Write" THEN @ + 1 ELSE @]

CreateFileCall ==
    /\ DirsLive
    /\ \E t \in {Caller}, absolute \in Starts(Caller), path \in DirPaths :
           With(FindFile(fs, t, absolute, path), LAMBDA r :
               fs' = Logged(MakeEntry(Walked(fs, r), r, SPAM_FILE_SIZE, FALSE),
                        "Create", t, absolute, path))
    /\ UNCHANGED vm
    /\ KernelIdle

RemoveFileCall ==
    /\ DirsLive
    /\ \E t \in {Caller}, absolute \in Starts(Caller), path \in DirPaths,
          junk \in {NUM_SECTORS} :
           With(FindFile(fs, t, absolute, path), LAMBDA r :
               fs' = Logged(RemoveFile(Walked(fs, r), r, junk),
                        "Remove", t, absolute, path))
    /\ UNCHANGED vm
    /\ KernelIdle

MakeDirectoryCall ==
    /\ DirsLive
    /\ \E t \in {Caller}, absolute \in Starts(Caller), path \in DirPaths :
           With(FindFile(fs, t, absolute, path), LAMBDA r :
               fs' = Logged(MakeDirectory(Walked(fs, r), r),
                        "MakeDirectory", t, absolute, path))
    /\ UNCHANGED vm
    /\ KernelIdle

RemoveDirectoryCall ==
    /\ DirsLive
    /\ \E t \in {Caller}, absolute \in Starts(Caller), path \in DirPaths,
          junk \in {NUM_SECTORS} :
           With(FindFile(fs, t, absolute, path), LAMBDA r :
               fs' = Logged(RemoveDirectory(Walked(fs, r), r, junk),
                        "RemoveDirectory", t, absolute, path))
    /\ UNCHANGED vm
    /\ KernelIdle

ChangeDirectoryCall ==
    /\ DirsLive
    /\ \E t \in Procs : \E absolute \in Starts(t), path \in DirPaths :
           With(FindFile(fs, t, absolute, path), LAMBDA r :
               fs' = Logged(ChangeDirectory(Walked(fs, r), t, r),
                        "ChangeDirectory", t, absolute, path))
    /\ UNCHANGED vm
    /\ KernelIdle

ListDirectoryCall ==
    /\ DirsLive
    /\ \E t \in {Caller}, absolute \in Starts(Caller), path \in DirPaths :
           With(FindFile(fs, t, absolute, path), LAMBDA r :
               fs' = Logged(ListDirectory(Walked(fs, r), r),
                        "ListDirectory", t, absolute, path))
    /\ UNCHANGED vm
    /\ KernelIdle

WriteFileCall ==
    /\ ~fs.fatal /\ ~fs.undefined /\ fs.writes < MaxDirWrites
    /\ \E t \in {Caller}, absolute \in Starts(Caller), path \in DirPaths,
          ghosts \in 0 .. 1 :
           With(FindFile(fs, t, absolute, path), LAMBDA r :
               fs' = Logged(WriteFile(Walked(fs, r), r, ghosts),
                        "Write", t, absolute, path))
    /\ UNCHANGED vm
    /\ KernelIdle

NextDirs ==
    \/ CreateFileCall \/ RemoveFileCall \/ MakeDirectoryCall
    \/ RemoveDirectoryCall \/ ChangeDirectoryCall \/ ListDirectoryCall
    \/ WriteFileCall

SpecDirs == InitDirs /\ [][NextDirs]_vars

Succeeded == ~fs.fatal /\ ~fs.undefined /\ fs.ret
(* The entry of the last call, read again from the directory it names. *)
EntryNow ==
    IF fs.op.named = NoDir THEN -1
    ELSE FetchFrom(fs, fs.op.named).table[fs.op.path[Len(fs.op.path)]]

(* C26: after Create, Remove, MakeDirectory or RemoveDirectory has         *)
(* returned true the directory the path names holds the entry (Create,     *)
(* MakeDirectory) or holds it no more (Remove, RemoveDirectory); after a   *)
(* call that did not succeed every directory table on the disk and the     *)
(* bitmap are as the call found them.  A call the kernel stops in counts   *)
(* as one that did not succeed.                                            *)
C26_DirectoryOperationFrame ==
    fs.op.kind \in {"Create", "Remove", "MakeDirectory", "RemoveDirectory"}
        => /\ Succeeded /\ fs.op.kind \in {"Create", "MakeDirectory"}
                  => EntryNow # -1
           /\ Succeeded /\ fs.op.kind \in {"Remove", "RemoveDirectory"}
                  => fs.op.named # NoDir /\ EntryNow = -1
           /\ ~Succeeded => fs.data = fs.op.data /\ fs.freeMap = fs.op.freeMap

(* RemoveDirectory comes right after a MakeDirectory of the same path by   *)
(* the same thread that returned true.                                     *)
RoundTrip ==
    /\ fs.op.kind = "RemoveDirectory" /\ fs.prev.kind = "MakeDirectory"
    /\ fs.op.thr = fs.prev.thr /\ fs.op.path = fs.prev.path
    /\ fs.op.absolute = fs.prev.absolute
    /\ fs.op.freeMap # fs.prev.freeMap

(* C27: a RemoveDirectory that comes right after the MakeDirectory of the  *)
(* same path returns true and leaves the bitmap and the table of the       *)
(* parent directory as they were before the MakeDirectory; and a           *)
(* RemoveDirectory of a directory that has an entry, or that a thread has  *)
(* as its current directory, returns false.                                *)
C27_MakeRemoveDirectory ==
    /\ RoundTrip
           => /\ Succeeded
              /\ fs.freeMap = fs.prev.freeMap
              /\ fs.data[TableSector(fs, fs.prev.named)]
                     = fs.prev.data[TableSector(fs, fs.prev.named)]
    /\ fs.op.kind = "RemoveDirectory"
       /\ (fs.op.entries > 0 \/ fs.op.used)
           => ~fs.fatal /\ ~fs.undefined /\ ~fs.ret

(* C34: every call of Create, Open, Remove, MakeDirectory, ChangeDirectory, *)
(* ListDirectory and RemoveDirectory releases each lock of a directory     *)
(* file and of the bitmap file it has acquired exactly once: no release is *)
(* made by a thread that does not hold the lock, and when the call has     *)
(* returned the thread holds none.                                         *)
C34_LocksReleasedOnce ==
    /\ ~fs.stray
    /\ ~fs.fatal /\ ~fs.undefined => fs.held = {}

(* The locks that `order` names, and whether the order they were acquired  *)
(* in has a cycle: some set of locks each of which was acquired while      *)
(* another one of the set was held.                                        *)
OrderedLocks(f) == {e[1] : e \in f.order} \cup {e[2] : e \in f.order}
Cyclic(f) ==
    \E S \in SUBSET OrderedLocks(f) :
        S # {} /\ \A b \in S : \E a \in S : <<a, b>> \in f.order

(* C35: the locks of the directory files and of the bitmap file are        *)
(* acquired in an order that has no cycle, and every call of Create, Open, *)
(* Remove, MakeDirectory, RemoveDirectory, ChangeDirectory and             *)
(* ListDirectory returns: the kernel does not stop inside it.              *)
C35_OperationsReturn ==
    ~Cyclic(fs) /\ ~fs.fatal /\ ~fs.undefined

(***************************************************************************)
(* SynchDisk of synch_disk.cc: the cache of disk sectors with its queue of *)
(* deferred writes, used by two threads.  A thread gives the processor up  *)
(* where it asks for a lock that is held and where it waits for the disk   *)
(* interrupt; the statements between two such places run as one step.      *)
(* What a sector holds is one number: 0 on the new disk, the number of the *)
(* write afterwards.                                                       *)
(***************************************************************************)
CACHE_SIZE == 2
WRITEQ_SIZE == 1
MaxDiskCalls == 4
MaxDiskWrites == 3
Entries == 0 .. CACHE_SIZE - 1
(* The sectors the threads ask for, and the ones the disk is seen at. *)
AskedSectors == {0, 1, NUM_SECTORS - 1}
DiskSectors == AskedSectors \cup {s + 1 : s \in AskedSectors \ {NUM_SECTORS - 1}}

(* memset(cache, 0, ...) *)
ZeroCache == [sector |-> 0, valid |-> FALSE, use |-> FALSE, dirty |-> FALSE,
              data |-> 0]
(* A thread outside SynchDisk. *)
NoDiskCall == [pc |-> "idle", op |-> "none", sectorNumber |-> 0, data |-> 0,
           next |-> 0, nextIsCached |-> FALSE, req |-> "none",
           after |-> "none", write |-> 0, dirtyAtCall |-> {}, written |-> {}]
NoReturn == [op |-> "none", thr |-> NULL, sectorNumber |-> 0, data |-> 0,
             hit |-> FALSE, dirtyAtCall |-> {}, written |-> {}]

(* SynchDisk::SynchDisk on a disk of zeros. *)
InitCache ==
    /\ KernelAtRest
    /\ vm = NULL
    /\ fs = [cache |-> [i \in Entries |-> ZeroCache],
             writeQ |-> <<>>,
             numCachedWrites |-> 0,
             victim |-> 0,
             cacheLock |-> NULL,
             lock |-> NULL,
             inFlight |-> 0,
             disk |-> [s \in DiskSectors |-> 0],
             call |-> [t \in Procs |-> NoDiskCall],
             latest |-> [s \in DiskSectors |-> 0],
             last |-> NoReturn,
             fatal |-> FALSE,
             calls |-> 0,
             writes |-> 0]

(* The valid entries of the cache that hold the sector. *)
Cached(d, sector) ==
    {i \in Entries : d.cache[i].valid /\ d.cache[i].sector = sector}
(* The one the loops of ReadSector and WriteSector come to first. *)
FirstCached(d, sector) ==
    CHOOSE i \in Cached(d, sector) : \A j \in Cached(d, sector) : i <= j

(* The return of a call of thread t.  Every ReadSector of the sector that  *)
(* is in progress notes what a WriteSector has written.                    *)
Back(d, t, data, hit) ==
    [d EXCEPT !.call = [u \in Procs |->
                           IF u = t THEN NoDiskCall
                           ELSE IF /\ d.call[t].op = "WriteSector"
                                   /\ @[u].op = "ReadSector"
                                   /\ @[u].sectorNumber = d.call[t].sectorNumber
                           THEN [@[u] EXCEPT !.written = @ \cup {d.call[t].data}]
                           ELSE @[u]],
              !.latest = IF d.call[t].op = "WriteSector"
                         THEN [@ EXCEPT ![d.call[t].sectorNumber] = d.call[t].data]
                         ELSE @,
              !.last = [op |-> d.call[t].op, thr |-> t,
                        sectorNumber |-> d.call[t].sectorNumber,
                        data |-> data, hit |-> hit,
                        dirtyAtCall |-> d.call[t].dirtyAtCall,
                        written |-> d.call[t].written]]

(* The thread goes to lock->Acquire() with a request for the disk. *)
ToDisk(d, t, req) == [d EXCEPT !.call[t].pc = "diskLock", !.call[t].req = req]

(* What ReadSector and WriteSector do with the entry ReclaimCache gave     *)
(* them, up to their return or to the read ahead.                          *)
Filled(d, t, entry) ==
    LET c == d.call[t]
        after == c.after
        e == [d.cache[entry] EXCEPT
                 !.sector = IF after = "ahead" THEN c.sectorNumber + 1
                            ELSE c.sectorNumber,
                 !.use = TRUE,
                 !.dirty = IF after = "write" THEN TRUE ELSE @,
                 !.valid = TRUE,
                 !.data = IF after = "ahead" THEN c.next ELSE c.data]
        f == [d EXCEPT !.cache[entry] = e,
                       !.writeQ = IF after = "write" THEN Append(@, entry) ELSE @,
                       !.numCachedWrites = IF after = "write" THEN @ + 1 ELSE @,
                       !.cacheLock = NULL]
    IN  IF after = "read" /\ c.sectorNumber < NUM_SECTORS - 1 /\ ~c.nextIsCached
        THEN ToDisk(f, t, "ahead")
        ELSE Back(f, t, c.data, FALSE)

(* The loop of SynchDisk::ReclaimCache from its visit number i: the entry  *)
(* at the hand if it is not valid, or neither used nor dirty.              *)
RECURSIVE SecondChance(_, _, _)
SecondChance(d, t, i) ==
    IF i = 2 * CACHE_SIZE THEN [d EXCEPT !.fatal = TRUE]
    ELSE LET victimEntry == d.cache[d.victim]
             moved == [d EXCEPT !.victim = (@ + 1) % CACHE_SIZE]
         IN  IF ~victimEntry.valid \/ (~victimEntry.use /\ ~victimEntry.dirty)
             THEN Filled(moved, t, d.victim)
             ELSE SecondChance([moved EXCEPT !.cache[d.victim].use = FALSE],
                               t, i + 1)

(* SynchDisk::ReclaimCache by thread t, which has the cache lock: with     *)
(* more than WRITEQ_SIZE writes in the queue the oldest one goes to the    *)
(* disk and its entry is the one.                                          *)
ReclaimCache(d, t, after) ==
    LET f == [d EXCEPT !.cacheLock = t, !.call[t].after = after] IN
    IF d.numCachedWrites > WRITEQ_SIZE
    THEN ToDisk([f EXCEPT !.writeQ = Tail(@),
                          !.numCachedWrites = @ - 1,
                          !.call[t].write = Head(d.writeQ)],
                t, "reclaim")
    ELSE SecondChance(f, t, 0)

(* The first part of SynchDisk::ReadSector, with the cache lock. *)
ReadScanned(d, t) ==
    LET sector == d.call[t].sectorNumber IN
    IF Cached(d, sector) # {}
    THEN Back([d EXCEPT !.cache[FirstCached(d, sector)].use = TRUE], t,
              d.cache[FirstCached(d, sector)].data, TRUE)
    ELSE ToDisk([d EXCEPT !.call[t].nextIsCached = Cached(d, sector + 1) # {}],
                t, "read")

(* SynchDisk::WriteSector, with the cache lock. *)
WriteScanned(d, t) ==
    LET sector == d.call[t].sectorNumber
        i == FirstCached(d, sector)
    IN  IF Cached(d, sector) # {}
        THEN Back([d EXCEPT !.writeQ = IF d.cache[i].dirty THEN @
                                       ELSE Append(@, i),
                            !.numCachedWrites = IF d.cache[i].dirty THEN @
                                                ELSE @ + 1,
                            !.cache[i].dirty = TRUE,
                            !.cache[i].data = d.call[t].data,
                            !.cache[i].use = TRUE],
                  t, d.call[t].data, TRUE)
        ELSE ReclaimCache(d, t, "write")

(* The test of the loop of SynchDisk::FlushCache and the turn up to        *)
(* lock->Acquire().                                                        *)
FlushCache(d, t) ==
    IF d.writeQ = <<>> THEN Back(d, t, 0, FALSE)
    ELSE ToDisk([d EXCEPT !.writeQ = Tail(@),
                          !.numCachedWrites = @ - 1,
                          !.call[t].write = Head(d.writeQ)],
                t, "flush")

(* lock->Acquire() and disk->ReadRequest or WriteRequest: the disk moves   *)
(* the sector at once and interrupts later.                                *)
Requested(d, t) ==
    LET c == d.call[t]
        write == d.cache[c.write]
        f == [d EXCEPT !.lock = t, !.inFlight = @ + 1, !.call[t].pc = "io"]
    IN  CASE c.req = "read" -> [f EXCEPT !.call[t].data = d.disk[c.sectorNumber]]
          [] c.req = "ahead" -> [f EXCEPT !.call[t].next = d.disk[c.sectorNumber + 1]]
          [] OTHER -> [f EXCEPT !.disk[write.sector] = write.data]

(* SynchDisk::RequestDone and the thread that waited in semaphore->P(),    *)
(* up to the next place where it may wait.                                 *)
Interrupted(d, t) ==
    LET c == d.call[t]
        f == [d EXCEPT !.lock = NULL, !.inFlight = @ - 1]
    IN  CASE c.req \in {"read", "ahead"} ->
                 [f EXCEPT !.call[t].pc = "fill", !.call[t].after = c.req]
          [] c.req = "reclaim" ->
                 Filled([f EXCEPT !.cache[c.write].dirty = FALSE], t, c.write)
          [] OTHER ->
                 FlushCache([f EXCEPT !.cache[c.write].valid = FALSE,
                                      !.cache[c.write].use = FALSE,
                                      !.cache[c.write].dirty = FALSE], t)

CacheLive == ~fs.fatal
(* The state a step starts from: the record of the last return is of the   *)
(* step before.                                                            *)
Entered == [fs EXCEPT !.last = NoReturn]

ReadSectorCall ==
    /\ CacheLive /\ fs.calls < MaxDiskCalls
    /\ \E t \in Procs, sector \in AskedSectors :
           /\ fs.call[t].pc = "idle"
           /\ fs' = [Entered EXCEPT !.calls = @ + 1,
                                   !.call[t].pc = "readScan",
                                   !.call[t].op = "ReadSector",
                                   !.call[t].written = {fs.latest[sector]},
                                   !.call[t].sectorNumber = sector]
    /\ UNCHANGED vm
    /\ KernelIdle

WriteSectorCall ==
    /\ CacheLive /\ fs.calls < MaxDiskCalls /\ fs.writes < MaxDiskWrites
    /\ \E t \in Procs, sector \in AskedSectors :
           /\ fs.call[t].pc = "idle"
           /\ fs' = [Entered EXCEPT !.calls = @ + 1,
                                   !.writes = @ + 1,
                                   !.call[t].pc = "writeScan",
                                   !.call[t].op = "WriteSector",
                                   !.call[t].sectorNumber = sector,
                                   !.call[t].data = fs.writes + 1]
    /\ UNCHANGED vm
    /\ KernelIdle

FlushCacheCall ==
    /\ CacheLive /\ fs.calls < MaxDiskCalls
    /\ \E t \in Procs :
           /\ fs.call[t].pc = "idle"
           /\ fs' = FlushCache(
                        [Entered EXCEPT
                            !.calls = @ + 1,
                            !.call[t].op = "FlushCache",
                            !.call[t].dirtyAtCall =
                                {fs.cache[i].sector :
                                     i \in {j \in Entries : fs.cache[j].valid
                                                            /\ fs.cache[j].dirty}}],
                        t)
    /\ UNCHANGED vm
    /\ KernelIdle

ReadScan ==
    /\ CacheLive /\ fs.cacheLock = NULL
    /\ \E t \in Procs :
           /\ fs.call[t].pc = "readScan"
           /\ fs' = ReadScanned(Entered, t)
    /\ UNCHANGED vm
    /\ KernelIdle

WriteScan ==
    /\ CacheLive /\ fs.cacheLock = NULL
    /\ \E t \in Procs :
           /\ fs.call[t].pc = "writeScan"
           /\ fs' = WriteScanned(Entered, t)
    /\ UNCHANGED vm
    /\ KernelIdle

Fill ==
    /\ CacheLive /\ fs.cacheLock = NULL
    /\ \E t \in Procs :
           /\ fs.call[t].pc = "fill"
           /\ fs' = ReclaimCache(Entered, t, fs.call[t].after)
    /\ UNCHANGED vm
    /\ KernelIdle

DiskRequest ==
    /\ CacheLive /\ fs.lock = NULL
    /\ \E t \in Procs :
           /\ fs.call[t].pc = "diskLock"
           /\ fs' = Requested(Entered, t)
    /\ UNCHANGED vm
    /\ KernelIdle

RequestDone ==
    /\ CacheLive
    /\ \E t \in Procs :
           /\ fs.call[t].pc = "io"
           /\ fs' = Interrupted(Entered, t)
    /\ UNCHANGED vm
    /\ KernelIdle

NextCache ==
    \/ ReadSectorCall \/ WriteSectorCall \/ FlushCacheCall \/ ReadScan
    \/ WriteScan \/ Fill \/ DiskRequest \/ RequestDone

SpecCache == InitCache /\ [][NextCache]_vars

(* The places of the write queue that name entry i. *)
Queued(i) == {k \in 1 .. Len(fs.writeQ) : fs.writeQ[k] = i}

(* C28: whenever no thread is inside the cache lock, no two valid entries  *)
(* of the cache hold the same sector, every dirty entry is in the write    *)
(* queue exactly once, and every element of the queue is a dirty entry.    *)
C28_CacheInvariant ==
    fs.cacheLock = NULL
        => /\ \A i, j \in Entries :
                  /\ fs.cache[i].valid /\ fs.cache[j].valid
                  /\ fs.cache[i].sector = fs.cache[j].sector
                  => i = j
           /\ \A i \in Entries :
                  fs.cache[i].dirty => Cardinality(Queued(i)) = 1
           /\ \A k \in 1 .. Len(fs.writeQ) : fs.cache[fs.writeQ[k]].dirty

(* C29: at most one request is with the disk at any time, and a thread     *)
(* that waits for the disk does not have the cache lock, so that no        *)
(* ReadSector that finds its sector in the cache has to wait for a write   *)
(* of the disk.                                                            *)
C29_DiskLockOnly ==
    /\ fs.inFlight <= 1
    /\ \A t \in Procs :
           fs.call[t].pc \in {"diskLock", "io"} => fs.cacheLock # t

(* C30: when FlushCache returns the write queue is empty, no entry of the  *)
(* cache is dirty, and every sector that had a dirty entry when FlushCache *)
(* was called holds on the disk what the last WriteSector of it wrote.     *)
C30_FlushCacheDrains ==
    fs.last.op = "FlushCache"
        => /\ fs.writeQ = <<>>
           /\ \A i \in Entries : ~fs.cache[i].dirty
           /\ \A s \in fs.last.dirtyAtCall : fs.disk[s] = fs.latest[s]

(* The entries a thread has taken from the write queue and not yet handed  *)
(* to the disk.                                                            *)
BeingWritten ==
    {fs.call[t].write : t \in {u \in Procs : /\ fs.call[u].pc = "diskLock"
                                              /\ fs.call[u].req \in {"flush", "reclaim"}}}

(* C31: the data of the last WriteSector of a sector that has returned is  *)
(* on the disk, or in a valid dirty entry of the cache that is in the      *)
(* write queue or on its way from the queue to the disk.                   *)
C31_WriteNeverLost ==
    \A s \in DiskSectors :
        \/ fs.disk[s] = fs.latest[s]
        \/ \E i \in Cached(fs, s) :
               /\ fs.cache[i].dirty
               /\ fs.cache[i].data = fs.latest[s]
               /\ Queued(i) # {} \/ i \in BeingWritten

(* C32: a ReadSector returns what the last WriteSector of the sector that  *)
(* had returned when it was called wrote (what the disk held, if there was *)
(* none), or what a WriteSector wrote while it was in progress.            *)
C32_ReadYieldsWritten ==
    fs.last.op = "ReadSector" => fs.last.data \in fs.last.written

(* C38: ReclaimCache always returns a victim: it never comes to its last  *)
(* assertion (the kernel stops there), and the write queue never holds     *)
(* more than WRITEQ_SIZE + 1 writes.                                       *)
C38_ReclaimFindsVictim ==
    ~fs.fatal /\ Len(fs.writeQ) <= WRITEQ_SIZE + 1

====
